---- MODULE Spec2Model ----
(***************************************************************************)
(* A model of name-radar's evidence aggregation engine:                    *)
(*   - the name normaliser and the match classifier                        *)
(*     (check_name_professional.js),                                       *)
(*   - the social-platform checkers (src/modules/social-probe.js),         *)
(*   - the per-name pipeline findNameUsage (check_name_professional.js),   *)
(*   - the social part of the brand scorer (src/utils/scoring.js).         *)
(*                                                                         *)
(* Strings are sequences of one-character strings, so that lower-casing,   *)
(* slugging, prefix and substring tests are computed character by          *)
(* character.  A JavaScript null or empty string is the empty sequence     *)
(* wherever the code only tests the value for truthiness.                  *)
(***************************************************************************)
EXTENDS Integers, Sequences, FiniteSets, TLC

VARIABLES
    cls,     \* one call of classifyMatch: [phase, q, obs, res]
    prb,     \* one call of a platform checker: [phase, platform, responses, res]
    scr,     \* one call of calculateBrandScore: [phase, name, results, score]
    nrm,     \* one call of buildCandidateDomains: [phase, input, base, again, candidates]
    srch,    \* one call of searchUrlsForName: its arguments, loop position and result
    bulk,    \* one run of main: the names, the loop position and what was done
    pc,      \* findNameUsage: the phase the run is in
    name,    \* findNameUsage: the name argument
    opts,    \* findNameUsage: the options argument
    probeResults,        \* records of the direct domain probe
    urls,                \* search hits returned by searchUrlsForName
    processed,           \* records built by processUrlForName
    combined,            \* probeResults ++ processed, then filtered
    dedup,               \* records surviving deduplication
    socialProbeResults,  \* the entries [platform, data] of probeSocialMedia's result
    results,             \* the list findNameUsage returns
    socialScore,         \* calculateSocialScore(results)
    serviceReplies,      \* what WHOIS, DNS and crt.sh answer for each domain in the run
    platformAnswers,     \* what each social platform answered to its checker
    lim,     \* limitFn = pLimit(concurrency): the budget, the queue and the tasks of a phase
    enr,     \* the enrichment loop of findNameUsage: its position and the calls it made
    psm      \* one call of probeSocialMedia: the platforms, the loop position, the entries

vars == <<cls, prb, scr, nrm, srch, bulk, pc, name, opts, probeResults, urls, processed, combined,
          dedup, socialProbeResults, results, socialScore, serviceReplies, platformAnswers,
          lim, enr, psm>>

\* The variables of the steps between the awaits of a run.
taskVars == <<lim, enr, psm>>

pipeVars == <<pc, name, opts, probeResults, urls, processed, combined,
              dedup, socialProbeResults, results, socialScore, serviceReplies,
              platformAnswers>>

\* The variables of the single calls.
callVars == <<cls, prb, scr, nrm, srch, bulk>>

NULL == "null"

(***************************************************************************)
(* Characters and strings                                                  *)
(***************************************************************************)

\* String.prototype.toLowerCase on one character.
LowerChar(c) ==
    CASE c = "A" -> "a"
      [] c = "B" -> "b"
      [] c = "C" -> "c"
      [] c = "P" -> "p"
      [] c = "T" -> "t"
      [] OTHER -> c

LetterChars == {"a", "b", "c", "d", "e", "f", "g", "h", "i", "j", "k", "l", "m",
                "n", "o", "p", "q", "r", "s", "t", "u", "v", "w", "x", "y", "z",
                "A", "B", "C", "P", "T"}
DigitChars == {"1", "2"}

\* \p{Letter} or \p{Number}
IsLetterOrNumber(c) == c \in LetterChars \cup DigitChars

\* \w of a JavaScript regular expression: [A-Za-z0-9_]
IsWordChar(c) == c \in LetterChars \cup DigitChars \cup {"_"}

RECURSIVE ToLower(_)
ToLower(s) == IF s = <<>> THEN <<>> ELSE <<LowerChar(Head(s))>> \o ToLower(Tail(s))

RECURSIVE KeepSlugChars(_)
KeepSlugChars(s) ==
    IF s = <<>> THEN <<>>
    ELSE IF IsLetterOrNumber(Head(s)) \/ Head(s) = "-"
         THEN <<Head(s)>> \o KeepSlugChars(Tail(s))
         ELSE KeepSlugChars(Tail(s))

\* .normalize('NFKD'): a precomposed letter becomes its base letter followed
\* by the combining mark. "eacute" stands for the letter e with an acute
\* accent (U+00E9) and "acute" for the combining acute accent (U+0301).
RECURSIVE NormalizeNFKD(_)
NormalizeNFKD(s) ==
    IF s = <<>> THEN <<>>
    ELSE (IF Head(s) = "eacute" THEN <<"e", "acute">> ELSE <<Head(s)>>)
         \o NormalizeNFKD(Tail(s))

\* slugLettersDigitsHyphen: lower-case, decompose, then drop everything that
\* is not a letter, a digit or a hyphen (a combining mark is none of them).
slugLettersDigitsHyphen(s) == KeepSlugChars(NormalizeNFKD(ToLower(s)))

\* String.prototype.startsWith
StartsWith(s, p) == Len(p) <= Len(s) /\ SubSeq(s, 1, Len(p)) = p

\* String.prototype.endsWith
EndsWith(s, p) == Len(p) <= Len(s) /\ SubSeq(s, Len(s) - Len(p) + 1, Len(s)) = p

\* String.prototype.includes: the empty string is included in every string.
Includes(s, sub) ==
    \E i \in 0..(Len(s) - Len(sub)) : SubSeq(s, i + 1, i + Len(sub)) = sub

\* Array element at a JavaScript (0-based) index, '' when there is none
\* (the code writes pathParts[i] || '').
At(parts, i) == IF i + 1 <= Len(parts) THEN parts[i + 1] ELSE <<>>

(***************************************************************************)
(* Social username extraction                                              *)
(***************************************************************************)

\* An observed URL is [valid, host, path, raw]: valid is whether new URL(u)
\* parses, host the lower-cased hostname as its labels, path the non-empty
\* segments of the pathname, raw the text of a URL that does not parse.

SOCIAL_PLATFORMS == <<
    [dom |-> <<<<"instagram", "com">>>>,               platform |-> "instagram", usernamePathIndex |-> 1],
    [dom |-> <<<<"tiktok", "com">>>>,                  platform |-> "tiktok",    usernamePathIndex |-> 1],
    [dom |-> <<<<"twitter", "com">>, <<"x", "com">>>>, platform |-> "twitter",   usernamePathIndex |-> 1],
    [dom |-> <<<<"facebook", "com">>>>,                platform |-> "facebook",  usernamePathIndex |-> 1],
    [dom |-> <<<<"youtube", "com">>>>,                 platform |-> "youtube",   usernamePathIndex |-> 1],
    [dom |-> <<<<"linktr", "ee">>>>,                   platform |-> "linktree",  usernamePathIndex |-> 1],
    [dom |-> <<<<"msha", "ke">>>>,                     platform |-> "milkshake", usernamePathIndex |-> 1],
    [dom |-> <<<<"github", "com">>>>,                  platform |-> "github",    usernamePathIndex |-> 1],
    [dom |-> <<<<"behance", "net">>>>,                 platform |-> "behance",   usernamePathIndex |-> 1],
    [dom |-> <<<<"medium", "com">>>>,                  platform |-> "medium",    usernamePathIndex |-> 1],
    [dom |-> <<<<"linkedin", "com">>>>,                platform |-> "linkedin",  usernamePathIndex |-> 1] >>

\* hostRe.test(host) for /(^|\.)d\.tld$/i: the host is d.tld or ends in .d.tld
HostReTest(p, host) ==
    \E k \in 1..Len(p.dom) : EndsWith(host, p.dom[k])

\* /d\.com$/.test(host), a pattern without the (^|\.) anchor: the last label
\* is com and the label before it ends in d.
LabelEndsIn(label, d) ==
    \/ label = d
    \/ d = "linkedin" /\ label = "notlinkedin"
    \/ d = "youtube"  /\ label = "notyoutube"
    \/ d = "facebook" /\ label = "notfacebook"
HostEndsIn(host, d) ==
    Len(host) >= 2 /\ host[Len(host)] = "com" /\ LabelEndsIn(host[Len(host) - 1], d)

StripAt(username) == IF StartsWith(username, <<"@">>) THEN Tail(username) ELSE username

OrElse(a, b) == IF a # <<>> THEN a ELSE b

\* The loop body of extractSocialUsername for the table entry p.
PlatformUsername(p, host, pathParts) ==
    LET u0 == StripAt(At(pathParts, p.usernamePathIndex))
        u1 == IF HostEndsIn(host, "youtube")
              THEN LET a == IF At(pathParts, 0) = <<"@">>
                            THEN OrElse(At(pathParts, 1), u0) ELSE u0
                   IN  IF At(pathParts, 0) \in {<<"c", "h", "a", "n", "n", "e", "l">>, <<"c">>}
                       THEN OrElse(At(pathParts, 1), a) ELSE a
              ELSE u0
        u2 == IF HostEndsIn(host, "facebook") /\ Includes(u1, <<".", "p", "h", "p">>)
              THEN <<>> ELSE u1
    IN  [platform |-> p.platform, username |-> u2]

RECURSIVE FirstPlatform(_, _, _)
FirstPlatform(i, host, pathParts) ==
    IF i > Len(SOCIAL_PLATFORMS) THEN [platform |-> NULL, username |-> <<>>]
    ELSE IF SOCIAL_PLATFORMS[i].platform # "linkedin" /\ HostReTest(SOCIAL_PLATFORMS[i], host)
         THEN PlatformUsername(SOCIAL_PLATFORMS[i], host, pathParts)
         ELSE FirstPlatform(i + 1, host, pathParts)

LinkedInHeads == {<<"i", "n">>, <<"c", "o", "m", "p", "a", "n", "y">>,
                  <<"s", "c", "h", "o", "o", "l">>,
                  <<"s", "h", "o", "w", "c", "a", "s", "e">>}

extractSocialUsername(u) ==
    IF ~u.valid THEN [platform |-> NULL, username |-> <<>>]
    ELSE IF HostEndsIn(u.host, "linkedin")
         THEN LET uidx == IF At(u.path, 0) \in LinkedInHeads THEN 1 ELSE 0
              IN  [platform |-> "linkedin", username |-> StripAt(At(u.path, uidx))]
         ELSE FirstPlatform(1, u.host, u.path)

(***************************************************************************)
(* Match classification                                                    *)
(***************************************************************************)

OrgKeywords == {<<"p", "t">>, <<"c", "v">>, <<"i", "n", "c">>, <<"l", "t", "d">>,
                <<"l", "l", "c">>, <<"c", "o", "m", "p", "a", "n", "y">>,
                <<"p", "e", "r", "u", "s", "a", "h", "a", "a", "n">>,
                <<"s", "t", "u", "d", "i", "o">>,
                <<"v", "e", "n", "t", "u", "r", "e", "s">>, <<"l", "a", "b", "s">>}

\* /(^|\b)(pt|cv|...|labs)\b/i.test(title): a keyword, in any case, that
\* starts at the start of the title or after a non-word character and ends at
\* the end of the title or before a non-word character.
OrgTitleTest(title) ==
    \E kw \in OrgKeywords : \E i \in 1..(Len(title) - Len(kw) + 1) :
        /\ ToLower(SubSeq(title, i, i + Len(kw) - 1)) = kw
        /\ (i = 1 \/ ~IsWordChar(title[i - 1]))
        /\ (i + Len(kw) - 1 = Len(title) \/ ~IsWordChar(title[i + Len(kw)]))

NoSocial == [platform |-> NULL, username |-> <<>>]

\* classifyMatch with the social rules tried before the domain rules.
classifyMatchSocialFirst(nameRaw, result) ==
    LET q         == slugLettersDigitsHyphen(nameRaw)
        titleSlug == slugLettersDigitsHyphen(result.title)
        sldSlug   == slugLettersDigitsHyphen(result.sld)
        soc       == extractSocialUsername(result.url)
        userSlug  == slugLettersDigitsHyphen(soc.username)
        orgTitle  == OrgTitleTest(result.title)
    IN  IF soc.username # <<>> /\ userSlug = q
        THEN [type |-> "social_exact", score |-> 90, social |-> soc]
        ELSE IF soc.username # <<>> /\ (Includes(userSlug, q) \/ Includes(q, userSlug))
        THEN [type |-> "social_contains", score |-> 70, social |-> soc]
        ELSE IF sldSlug # <<>> /\ sldSlug = q
        THEN [type |-> "exact_domain", score |-> 100, social |-> NoSocial]
        ELSE IF sldSlug # <<>> /\ (Includes(sldSlug, q) \/ Includes(q, sldSlug))
        THEN [type |-> "domain_contains", score |-> 80, social |-> NoSocial]
        ELSE IF titleSlug = q /\ orgTitle
        THEN [type |-> "org_title_exact", score |-> 75, social |-> NoSocial]
        ELSE IF Includes(titleSlug, q) /\ orgTitle
        THEN [type |-> "org_title_contains", score |-> 60, social |-> NoSocial]
        ELSE [type |-> "mention", score |-> 20, social |-> NoSocial]

\* classifyMatch(nameRaw, result), result = [sld, url, title]
classifyMatch(nameRaw, result) ==
    LET q         == slugLettersDigitsHyphen(nameRaw)
        titleSlug == slugLettersDigitsHyphen(result.title)
        sldSlug   == slugLettersDigitsHyphen(result.sld)
        soc       == extractSocialUsername(result.url)
        userSlug  == slugLettersDigitsHyphen(soc.username)
        orgTitle  == OrgTitleTest(result.title)
    IN  IF sldSlug # <<>> /\ sldSlug = q
        THEN [type |-> "exact_domain", score |-> 100, social |-> NoSocial]
        ELSE IF sldSlug # <<>> /\ (Includes(sldSlug, q) \/ Includes(q, sldSlug))
        THEN [type |-> "domain_contains", score |-> 80, social |-> NoSocial]
        ELSE IF soc.username # <<>> /\ userSlug = q
        THEN [type |-> "social_exact", score |-> 90, social |-> soc]
        ELSE IF soc.username # <<>> /\ (Includes(userSlug, q) \/ Includes(q, userSlug))
        THEN [type |-> "social_contains", score |-> 70, social |-> soc]
        ELSE IF titleSlug = q /\ orgTitle
        THEN [type |-> "org_title_exact", score |-> 75, social |-> NoSocial]
        ELSE IF Includes(titleSlug, q) /\ orgTitle
        THEN [type |-> "org_title_contains", score |-> 60, social |-> NoSocial]
        ELSE [type |-> "mention", score |-> 20, social |-> NoSocial]

(***************************************************************************)
(* Domain information of a URL                                             *)
(***************************************************************************)

\* The characters of a host label.
LabelChars(l) ==
    CASE l = "ab"  -> <<"a", "b">>
      [] l = "abc" -> <<"a", "b", "c">>
      [] l = "ab-c" -> <<"a", "b", "-", "c">>
      [] l = "com" -> <<"c", "o", "m">>
      [] l = "net" -> <<"n", "e", "t">>
      [] l = "ee"  -> <<"e", "e">>
      [] l = "ke"  -> <<"k", "e">>
      [] l = "www" -> <<"w", "w", "w">>
      [] l = "x"   -> <<"x">>
      [] l = "instagram" -> <<"i", "n", "s", "t", "a", "g", "r", "a", "m">>
      [] l = "tiktok"    -> <<"t", "i", "k", "t", "o", "k">>
      [] l = "twitter"   -> <<"t", "w", "i", "t", "t", "e", "r">>
      [] l = "facebook"  -> <<"f", "a", "c", "e", "b", "o", "o", "k">>
      [] l = "youtube"   -> <<"y", "o", "u", "t", "u", "b", "e">>
      [] l = "linktr"    -> <<"l", "i", "n", "k", "t", "r">>
      [] l = "msha"      -> <<"m", "s", "h", "a">>
      [] l = "github"    -> <<"g", "i", "t", "h", "u", "b">>
      [] l = "behance"   -> <<"b", "e", "h", "a", "n", "c", "e">>
      [] l = "medium"    -> <<"m", "e", "d", "i", "u", "m">>
      [] l = "linkedin"  -> <<"l", "i", "n", "k", "e", "d", "i", "n">>
      [] l = "notlinkedin" -> <<"n", "o", "t", "l", "i", "n", "k", "e", "d", "i", "n">>
      [] l = "linkpulse" -> <<"l", "i", "n", "k", "p", "u", "l", "s", "e">>
      [] l = "other" -> <<"o", "t", "h", "e", "r">>
      [] l = "org" -> <<"o", "r", "g">>
      [] l = "io"  -> <<"i", "o">>
      [] l = "co"  -> <<"c", "o">>
      [] l = "ai"  -> <<"a", "i">>
      [] l = "app" -> <<"a", "p", "p">>
      [] l = "dev" -> <<"d", "e", "v">>
      [] l = "biz" -> <<"b", "i", "z">>
      [] l = "tech" -> <<"t", "e", "c", "h">>
      [] l = "inc" -> <<"i", "n", "c">>
      [] l = "id"  -> <<"i", "d">>
      [] l = "web" -> <<"w", "e", "b">>
      [] l = "sch" -> <<"s", "c", "h">>
      [] l = "ac"  -> <<"a", "c">>
      [] l = "or"  -> <<"o", "r">>
      [] l = "digital" -> <<"d", "i", "g", "i", "t", "a", "l">>
      [] l = "cloud" -> <<"c", "l", "o", "u", "d">>
      [] OTHER -> <<"x", "1">>

RECURSIVE JoinDots(_)
JoinDots(labels) ==
    IF labels = <<>> THEN <<>>
    ELSE IF Len(labels) = 1 THEN LabelChars(labels[1])
    ELSE LabelChars(Head(labels)) \o <<".">> \o JoinDots(Tail(labels))

\* parseDomain(hostname) of the tldts package, for a host whose public
\* suffix is its last label.  registrable is whether the package reports
\* `domain` as the registrable domain (label.suffix) or as the label alone:
\* the package is not part of the sources, so both readings are kept.
ParseDomain(host, registrable) ==
    IF Len(host) < 2 THEN [domain |-> <<>>, publicSuffix |-> <<>>]
    ELSE LET label  == LabelChars(host[Len(host) - 1])
             suffix == LabelChars(host[Len(host)])
         IN  [domain |-> IF registrable THEN label \o <<".">> \o suffix ELSE label,
              publicSuffix |-> suffix]

\* safeDomainInfo(urlStr): null for every field when the URL does not parse.
safeDomainInfo(u, registrable) ==
    IF ~u.valid THEN [domain |-> <<>>, hostname |-> <<>>, tld |-> <<>>, sld |-> <<>>]
    ELSE LET info == ParseDomain(u.host, registrable)
         IN  [domain |-> IF info.domain # <<>> /\ info.publicSuffix # <<>>
                         THEN info.domain \o <<".">> \o info.publicSuffix
                         ELSE JoinDots(u.host),
              hostname |-> JoinDots(u.host),
              tld |-> info.publicSuffix,
              sld |-> info.domain]

(***************************************************************************)
(* The classifier applied to bounded observations                          *)
(***************************************************************************)

S_ab == <<"a", "b">>
S_linkpulse == <<"l", "i", "n", "k", "p", "u", "l", "s", "e">>
S_instagram == <<"i", "n", "s", "t", "a", "g", "r", "a", "m">>
S_PT_ab == <<"P", "T", " ", "a", "b">>

\* Names given as the query.
Queries == {S_ab, <<"A", "b">>, <<"a", " ", "b">>, S_PT_ab, S_linkpulse, S_instagram, <<>>}

\* User names as they appear in a path segment.
PathUsers == {S_ab, <<"A", "B">>, S_linkpulse, <<"a", "b", "c">>}

\* https://<platform-host>/<username>/ for every entry and host of the table
PlatformHosts ==
    UNION {{SOCIAL_PLATFORMS[i].dom[k] : k \in 1..Len(SOCIAL_PLATFORMS[i].dom)} :
              i \in 1..Len(SOCIAL_PLATFORMS)}

ProfileUrls ==
    {[valid |-> TRUE, host |-> h, path |-> <<user>>, raw |-> <<>>] : h \in PlatformHosts, user \in PathUsers}

OtherUrls == {
    [valid |-> FALSE, host |-> <<>>, path |-> <<>>, raw |-> <<"a", "b">>],
    [valid |-> TRUE, host |-> <<"ab", "com">>, path |-> <<>>, raw |-> <<>>],
    [valid |-> TRUE, host |-> <<"www", "abc", "com">>, path |-> <<<<"x">>>>, raw |-> <<>>],
    [valid |-> TRUE, host |-> <<"other", "com">>, path |-> <<S_ab>>, raw |-> <<>>],
    [valid |-> TRUE, host |-> <<"ab", "com">>, path |-> <<<<"x">>, S_ab>>, raw |-> <<>>],
    [valid |-> TRUE, host |-> <<"www", "instagram", "com">>, path |-> <<<<"p">>, S_ab>>, raw |-> <<>>],
    [valid |-> TRUE, host |-> <<"instagram", "com">>, path |-> <<<<"x">>, <<"a", "b", "c">>>>, raw |-> <<>>],
    [valid |-> TRUE, host |-> <<"instagram", "com">>, path |-> <<<<"x">>, S_instagram>>, raw |-> <<>>],
    [valid |-> TRUE, host |-> <<"www", "linkedin", "com">>,
     path |-> <<<<"c", "o", "m", "p", "a", "n", "y">>, S_ab>>, raw |-> <<>>],
    [valid |-> TRUE, host |-> <<"notlinkedin", "com">>, path |-> <<<<"@", "a", "b">>>>, raw |-> <<>>],
    [valid |-> TRUE, host |-> <<"www", "youtube", "com">>, path |-> <<<<"@", "a", "b">>>>, raw |-> <<>>],
    [valid |-> TRUE, host |-> <<"youtube", "com">>, path |-> <<<<"c">>, S_ab>>, raw |-> <<>>],
    [valid |-> TRUE, host |-> <<"www", "facebook", "com">>,
     path |-> <<<<"x">>, <<"a", "b", ".", "p", "h", "p">>>>, raw |-> <<>>],
    [valid |-> TRUE, host |-> <<"www", "tiktok", "com">>, path |-> <<<<"x">>, <<"@", "a", "b">>>>, raw |-> <<>>] }

ClassifyUrls == ProfileUrls \cup OtherUrls

Titles == {<<>>, S_ab, S_PT_ab, <<"a", "b", "c", " ", "l", "a", "b", "s">>,
           <<"a", "b", "p", "t">>}

\* The result object handed to classifyMatch by processUrlForName:
\* { ...safeDomainInfo(u), url: u, title }
Observation(u, registrable, title) ==
    LET dn == safeDomainInfo(u, registrable)
    IN  [domain |-> dn.domain, hostname |-> dn.hostname, tld |-> dn.tld, sld |-> dn.sld,
         url |-> u, title |-> title]

NoResult == [type |-> "none", score |-> 0, social |-> NoSocial]
ClsIdle == [phase |-> "idle", q |-> <<>>, obs |-> Observation([valid |-> FALSE, host |-> <<>>, path |-> <<>>, raw |-> <<"a", "b">>], FALSE, <<>>), res |-> NoResult]

ClassifyInit ==
    cls \in {[phase |-> "in", q |-> q, obs |-> Observation(u, reg, t), res |-> NoResult] :
                q \in Queries, u \in ClassifyUrls, reg \in BOOLEAN, t \in Titles}

\* One call classifyMatch(q, obs).
Classify ==
    /\ cls.phase = "in"
    /\ cls' = [cls EXCEPT !.phase = "out", !.res = classifyMatch(cls.q, cls.obs)]
    /\ UNCHANGED <<prb, scr, nrm, srch, bulk, pipeVars, taskVars>>

(***************************************************************************)
(* Social platform checkers                                                *)
(***************************************************************************)

\* What fetchWithHeaders returns is [status, body, redirect].  status 0 is
\* the object built in its catch branch (network error, timeout), which has
\* no text().  A body is described by what the checker looks for in it:
\*   empty     the text is ''
\*   notFound  it contains one of the checker's not-found phrases
\*   marker    it contains one of the checker's profile markers
\*   userIDs   the values of its "userID":"..." fields, in order
\* redirect describes the location header: toProfile is whether it contains
\* x.com/<username> or twitter.com/<username>, login whether it contains
\* 'login' or 'error'.

ProbeResult(exists, status, confidence, note) ==
    [exists |-> exists, status |-> status, confidence |-> confidence, note |-> note,
     requests |-> 1]

IsRedirect(response) == response.status >= 300 /\ response.status < 400

HttpNote == "HTTP status - check manually"

checkInstagram(response) ==
    IF response.status = 404 THEN ProbeResult("false", "available", "high", "")
    ELSE IF response.status = 200
    THEN IF response.body.notFound
         THEN ProbeResult("false", "available", "high", "Page not found (verified)")
         ELSE IF response.body.marker
         THEN ProbeResult("true", "taken", "high", "Profile verified")
         ELSE ProbeResult("null", "unknown", "none", "Could not verify - check manually")
    ELSE IF response.status = 429
    THEN ProbeResult("null", "unknown", "none", "Rate limited - check manually")
    ELSE IF response.status = 403
    THEN ProbeResult("null", "unknown", "none", "Blocked by Instagram - check manually")
    ELSE IF IsRedirect(response) \/ response.status = 302 \/ response.status = 301
    THEN ProbeResult("null", "unknown", "none", "Redirect detected - check manually")
    ELSE IF response.status = 0
    THEN ProbeResult("null", "unknown", "none", "Network error - check manually")
    ELSE ProbeResult("null", "unknown", "none", HttpNote)

\* userIDValues.some(id => id !== "0" && id.length > 1)
HasRealUserID(ids) == \E i \in 1..Len(ids) : ids[i] # <<"0">> /\ Len(ids[i]) > 1

\* userIDValues.every(id => id === "0")
EveryUserIDZero(ids) == \A i \in 1..Len(ids) : ids[i] = <<"0">>

checkFacebook(response) ==
    IF response.status = 404 THEN ProbeResult("false", "available", "high", "")
    ELSE IF response.status = 0
    \* response.text is undefined: the call throws into the inner catch
    THEN ProbeResult("null", "unknown", "none", "Could not read response - check manually")
    ELSE IF ~response.body.empty /\ Len(response.body.userIDs) >= 3
            /\ HasRealUserID(response.body.userIDs)
    THEN ProbeResult("true", "taken", "high", "Found userID fields with real IDs")
    ELSE IF ~response.body.empty /\ response.body.marker
    THEN ProbeResult("true", "taken", "high", "Found userVanity matching username")
    ELSE IF ~response.body.empty /\ Len(response.body.userIDs) <= 1
            /\ EveryUserIDZero(response.body.userIDs)
    THEN ProbeResult("false", "available", "high", "Only found userID: 0 (no profile)")
    ELSE IF ~response.body.empty /\ response.body.notFound
    THEN ProbeResult("false", "available", "high", "")
    ELSE IF response.status = 200
    THEN ProbeResult("null", "unknown", "none", "Could not verify userID pattern - check manually")
    ELSE IF response.status = 403
    THEN ProbeResult("null", "unknown", "none", "Blocked by Facebook - check manually")
    ELSE IF IsRedirect(response) \/ response.status = 302 \/ response.status = 301
    THEN ProbeResult("null", "unknown", "none", "Redirect detected - check manually")
    ELSE ProbeResult("null", "unknown", "none", HttpNote)

checkYouTube(response) ==
    IF response.status = 404 THEN ProbeResult("false", "available", "high", "")
    ELSE IF response.status = 200
    THEN IF response.body.notFound
         THEN ProbeResult("false", "available", "high", "Channel not found (verified)")
         ELSE IF response.body.marker
         THEN ProbeResult("true", "taken", "high", "Channel verified")
         ELSE ProbeResult("null", "unknown", "none", "Could not verify - check manually")
    ELSE IF response.status = 403
    THEN ProbeResult("null", "unknown", "none", "Blocked by YouTube - check manually")
    ELSE IF IsRedirect(response) \/ response.status = 302 \/ response.status = 301
    THEN ProbeResult("null", "unknown", "none", "Redirect detected - check manually")
    ELSE IF response.status = 0
    THEN ProbeResult("null", "unknown", "none", "Network error - check manually")
    ELSE ProbeResult("null", "unknown", "none", HttpNote)

checkTikTok(response) ==
    IF response.status = 404 THEN ProbeResult("false", "available", "high", "")
    ELSE IF response.status = 200
    THEN IF response.body.notFound
         THEN ProbeResult("false", "available", "high", "Account not found (verified)")
         ELSE IF response.body.marker
         THEN ProbeResult("true", "taken", "high", "Profile verified")
         ELSE ProbeResult("null", "unknown", "none", "Could not verify - check manually")
    ELSE IF response.status = 403
    THEN ProbeResult("null", "unknown", "none", "Blocked by TikTok - check manually")
    ELSE IF IsRedirect(response) \/ response.status = 302 \/ response.status = 301
    THEN ProbeResult("null", "unknown", "none", "Redirect detected - check manually")
    ELSE IF response.status = 0
    THEN ProbeResult("null", "unknown", "none", "Network error - check manually")
    ELSE ProbeResult("null", "unknown", "none", HttpNote)

checkLinkedIn(response) ==
    IF response.status = 404 THEN ProbeResult("false", "available", "high", "")
    ELSE IF response.status = 200
    THEN IF response.body.notFound
         THEN ProbeResult("false", "available", "high", "Page not found (verified)")
         ELSE IF response.body.marker
         THEN ProbeResult("true", "taken", "high", "Company page verified")
         ELSE ProbeResult("null", "unknown", "none", "Could not verify - check manually")
    ELSE IF response.status = 999
    THEN ProbeResult("null", "unknown", "none", "LinkedIn rate limit - check manually")
    ELSE IF response.status = 403
    THEN ProbeResult("null", "unknown", "none", "Blocked by LinkedIn - check manually")
    ELSE IF IsRedirect(response) \/ response.status = 302 \/ response.status = 301
    THEN ProbeResult("null", "unknown", "none", "Redirect/requires login - check manually")
    ELSE IF response.status = 0
    THEN ProbeResult("null", "unknown", "none", "Network error - check manually")
    ELSE ProbeResult("null", "unknown", "none", HttpNote)

checkGitHub(response) ==
    IF response.status = 404 THEN ProbeResult("false", "available", "high", "")
    ELSE IF response.status = 200
    THEN IF response.body.notFound
         THEN ProbeResult("false", "available", "high", "Page not found (verified)")
         ELSE IF response.body.marker
         THEN ProbeResult("true", "taken", "high", "Profile verified")
         ELSE ProbeResult("true", "taken", "high", "")
    ELSE IF response.status = 429
    THEN ProbeResult("null", "unknown", "none", "Rate limited - check manually")
    ELSE IF response.status = 403
    THEN ProbeResult("null", "unknown", "none", "Blocked by GitHub - check manually")
    ELSE IF IsRedirect(response) \/ response.status = 302 \/ response.status = 301
    THEN ProbeResult("null", "unknown", "none", "Redirect detected - check manually")
    ELSE IF response.status = 0
    THEN ProbeResult("null", "unknown", "none", "Network error - check manually")
    ELSE ProbeResult("null", "unknown", "none", HttpNote)

\* The for loop of checkTwitter from URL number i (1: twitter.com, 2: x.com)
\* with last404Count = count; responses[i] is what URL i answers.
RECURSIVE TwitterLoop(_, _, _)
TwitterLoop(i, count, responses) ==
    IF i > 2
    THEN [ProbeResult("null", "unknown", "none", "Could not verify - check manually")
            EXCEPT !.requests = 2]
    ELSE LET response == responses[i]
             done(r)  == [r EXCEPT !.requests = i]
         IN  IF response.status = 404
             THEN IF count + 1 >= 2
                  THEN done(ProbeResult("false", "available", "high", ""))
                  ELSE TwitterLoop(i + 1, count + 1, responses)
             ELSE IF response.status = 200
             THEN IF response.body.notFound
                  THEN IF count + 1 >= 2
                       THEN done(ProbeResult("false", "available", "high",
                                             "Account not found (verified)"))
                       ELSE TwitterLoop(i + 1, count + 1, responses)
                  ELSE IF response.body.marker
                  THEN done(ProbeResult("true", "taken", "high", "Profile verified"))
                  ELSE done(ProbeResult("null", "unknown", "none",
                                        "Could not verify - check manually"))
             ELSE IF IsRedirect(response) \/ response.status = 302 \/ response.status = 301
             THEN IF response.redirect.toProfile /\ ~response.redirect.login
                  THEN TwitterLoop(i + 1, count, responses)
                  ELSE done(ProbeResult("null", "unknown", "none",
                                        "Redirect detected - check manually"))
             ELSE IF response.status = 403
             THEN done(ProbeResult("null", "unknown", "none",
                                   "Blocked by platform - check manually"))
             ELSE IF response.status = 0
             THEN TwitterLoop(i + 1, count, responses)
             ELSE IF i # 2
             THEN TwitterLoop(i + 1, count, responses)
             ELSE done(ProbeResult("null", "unknown", "none", HttpNote))

\* checkTwitter with last404Count starting at 1: one negative answer is
\* enough for available.
checkTwitterSingle(responses) == TwitterLoop(1, 1, responses)

checkTwitter(responses) == TwitterLoop(1, 0, responses)

\* checkers[platform](username), given what the platform answers: a sequence
\* of responses, one for each request the checker makes.
Checker(platform, responses) ==
    CASE platform = "instagram" -> checkInstagram(responses[1])
      [] platform = "facebook"  -> checkFacebook(responses[1])
      [] platform = "youtube"   -> checkYouTube(responses[1])
      [] platform = "twitter"   -> checkTwitter(responses)
      [] platform = "tiktok"    -> checkTikTok(responses[1])
      [] platform = "linkedin"  -> checkLinkedIn(responses[1])
      [] platform = "github"    -> checkGitHub(responses[1])

(***************************************************************************)
(* The checkers applied to bounded responses                               *)
(***************************************************************************)

\* The longest list of "userID" fields in a body.
MaxUserIDs == 3

\* "0", a one-character id that is not "0", and a real id.
UserIDValues == {<<"0">>, <<"7">>, <<"1", "0", "0">>}

RECURSIVE SeqsUpTo(_, _)
SeqsUpTo(S, n) ==
    IF n = 0 THEN {<<>>}
    ELSE LET shorter == SeqsUpTo(S, n - 1)
         IN  shorter \cup {Append(q, x) : q \in shorter, x \in S}

EmptyBody == [empty |-> TRUE, notFound |-> FALSE, marker |-> FALSE, userIDs |-> <<>>]
NoRedirect == [toProfile |-> FALSE, login |-> FALSE]

\* Only checkFacebook reads the userID fields.
BodiesFor(platform) ==
    {EmptyBody} \cup
    {[empty |-> FALSE, notFound |-> nf, marker |-> mk, userIDs |-> ids] :
        nf \in BOOLEAN, mk \in BOOLEAN,
        ids \in IF platform = "facebook" THEN SeqsUpTo(UserIDValues, MaxUserIDs) ELSE {<<>>}}

BodyStatuses == {200, 403, 404, 429, 500, 999}
RedirectStatuses == {301, 302, 307}

ResponsesFor(platform) ==
    {[status |-> 0, body |-> EmptyBody, redirect |-> NoRedirect]}
    \cup {[status |-> st, body |-> b, redirect |-> NoRedirect] :
             st \in BodyStatuses, b \in BodiesFor(platform)}
    \cup {[status |-> st, body |-> b, redirect |-> [toProfile |-> tp, login |-> lg]] :
             st \in RedirectStatuses,
             b \in {EmptyBody, [empty |-> FALSE, notFound |-> FALSE, marker |-> FALSE,
                                userIDs |-> <<>>]},
             tp \in BOOLEAN, lg \in BOOLEAN}

CheckerPlatforms == {"instagram", "facebook", "youtube", "twitter", "tiktok", "linkedin", "github"}

\* One response for each request the checker can make.
ResponseSeqsFor(platform) ==
    IF platform = "twitter"
    THEN {<<r1, r2>> : r1 \in ResponsesFor(platform), r2 \in ResponsesFor(platform)}
    ELSE {<<r>> : r \in ResponsesFor(platform)}

NoProbeResult == [exists |-> "null", status |-> "none", confidence |-> "none", note |-> "",
                  requests |-> 0]
PrbIdle == [phase |-> "idle", platform |-> "none", responses |-> <<>>, res |-> NoProbeResult]

ProbeInit ==
    prb \in UNION {{[phase |-> "in", platform |-> p, responses |-> rs, res |-> NoProbeResult] :
                       rs \in ResponseSeqsFor(p)} : p \in CheckerPlatforms}

\* One call checkers[platform](username).
Check ==
    /\ prb.phase = "in"
    /\ prb' = [prb EXCEPT !.phase = "out", !.res = Checker(prb.platform, prb.responses)]
    /\ UNCHANGED <<cls, scr, nrm, srch, bulk, pipeVars, taskVars>>

(***************************************************************************)
(* Candidate domains                                                       *)
(***************************************************************************)

IsSpaceOrUnderscore(c) == c \in {" ", "_"}

\* .replace(/[\s_]+/g, '-'): every maximal run of white space and
\* underscores becomes one hyphen.
RECURSIVE RunsToHyphen(_)
RunsToHyphen(s) ==
    IF s = <<>> THEN <<>>
    ELSE IF IsSpaceOrUnderscore(Head(s))
         THEN IF Len(s) > 1 /\ IsSpaceOrUnderscore(s[2])
              THEN RunsToHyphen(Tail(s))
              ELSE <<"-">> \o RunsToHyphen(Tail(s))
         ELSE <<Head(s)>> \o RunsToHyphen(Tail(s))

LowerAsciiLetters == {"a", "b", "c", "d", "e", "f", "g", "h", "i", "j", "k", "l", "m",
                      "n", "o", "p", "q", "r", "s", "t", "u", "v", "w", "x", "y", "z"}

\* .replace(/[^a-z0-9-]+/g, '')
RECURSIVE KeepDomainChars(_)
KeepDomainChars(s) ==
    IF s = <<>> THEN <<>>
    ELSE IF Head(s) \in LowerAsciiLetters \cup DigitChars \cup {"-"}
         THEN <<Head(s)>> \o KeepDomainChars(Tail(s))
         ELSE KeepDomainChars(Tail(s))

\* .replace(/-+/g, '-')
RECURSIVE CollapseHyphens(_)
CollapseHyphens(s) ==
    IF s = <<>> THEN <<>>
    ELSE IF Head(s) = "-" /\ Len(s) > 1 /\ s[2] = "-"
         THEN CollapseHyphens(Tail(s))
         ELSE <<Head(s)>> \o CollapseHyphens(Tail(s))

\* .replace(/^-+/, '')
RECURSIVE TrimLeadingHyphens(_)
TrimLeadingHyphens(s) ==
    IF s # <<>> /\ Head(s) = "-" THEN TrimLeadingHyphens(Tail(s)) ELSE s

\* .replace(/-+$/, '')
RECURSIVE TrimTrailingHyphens(_)
TrimTrailingHyphens(s) ==
    IF s # <<>> /\ s[Len(s)] = "-"
    THEN TrimTrailingHyphens(SubSeq(s, 1, Len(s) - 1)) ELSE s

\* The steps of toDomainBase with the hyphens trimmed from the ends before
\* the characters outside a-z, 0-9 and hyphen are removed.
toDomainBaseTrimFirst(n) ==
    CollapseHyphens(KeepDomainChars(TrimTrailingHyphens(TrimLeadingHyphens(
        RunsToHyphen(NormalizeNFKD(ToLower(n)))))))

toDomainBase(n) ==
    TrimTrailingHyphens(TrimLeadingHyphens(CollapseHyphens(KeepDomainChars(
        RunsToHyphen(NormalizeNFKD(ToLower(n)))))))

\* BUSINESS_TLDS of the configuration, each TLD as its labels.
BUSINESS_TLDS == [
    global    |-> <<<<"com">>, <<"net">>, <<"org">>, <<"io">>, <<"co">>, <<"ai">>, <<"app">>,
                   <<"dev">>, <<"biz">>, <<"tech">>, <<"inc">>>>,
    indonesia |-> <<<<"id">>, <<"co", "id">>, <<"web", "id">>, <<"sch", "id">>, <<"ac", "id">>,
                   <<"or", "id">>>>,
    startup   |-> <<<<"io">>, <<"ai">>, <<"tech">>, <<"dev">>, <<"app">>, <<"digital">>,
                   <<"cloud">>>> ]

\* [...new Set(list)]: the first occurrence of every element, in order.
RECURSIVE Unique(_)
Unique(list) ==
    IF list = <<>> THEN <<>>
    ELSE LET front == Unique(SubSeq(list, 1, Len(list) - 1))
             last  == list[Len(list)]
         IN  IF \E i \in 1..Len(front) : front[i] = last THEN front ELSE Append(front, last)

\* The number of TLDs, from the front of the configured list, that are probed.
MaxTlds == 1

Prefix(list, n) == SubSeq(list, 1, IF n < Len(list) THEN n ELSE Len(list))

buildCandidateDomains(n) ==
    LET base       == toDomainBase(n)
        allTLDs    == BUSINESS_TLDS.global \o BUSINESS_TLDS.indonesia \o BUSINESS_TLDS.startup
        uniqueTLDs == Prefix(Unique(allTLDs), MaxTlds)
        candidates == [i \in 1..Len(uniqueTLDs) |-> base \o <<".">> \o JoinDots(uniqueTLDs[i])]
    IN  Unique(candidates)

(***************************************************************************)
(* Evidence collectors                                                     *)
(***************************************************************************)

\* What the WHOIS service, the resolver and crt.sh answer for a domain.
\*   whois: "registered" | "no_match" (a no-match phrase in the text) | "error"
\*   dns:   "a" | "aaaa" | "none" | "error"
\*   crt:   "entries" | "no_results" | "bad_json" | "http_error" | "error"

NoWhois == [present |-> FALSE, ok |-> FALSE, likelyAvailable |-> FALSE]
NoDns   == [present |-> FALSE, resolves |-> FALSE]
NoCrt   == [present |-> FALSE, ok |-> FALSE, entries |-> 0]

\* checkWhois with a failed lookup taken as an answer without a match.
checkWhoisErrorAsNoMatch(reply) ==
    [present |-> TRUE, ok |-> TRUE, likelyAvailable |-> (reply \in {"no_match", "error"})]

checkWhois(reply) ==
    IF reply = "error" THEN [present |-> TRUE, ok |-> FALSE, likelyAvailable |-> FALSE]
    ELSE [present |-> TRUE, ok |-> TRUE, likelyAvailable |-> (reply = "no_match")]

checkDns(reply) ==
    [present |-> TRUE, resolves |-> (reply \in {"a", "aaaa"})]

checkCrtSh(reply) ==
    IF reply \in {"http_error", "error"} THEN [present |-> TRUE, ok |-> FALSE, entries |-> 0]
    ELSE [present |-> TRUE, ok |-> TRUE, entries |-> IF reply = "entries" THEN 2 ELSE 0]

\* The answers the three services give in a run.
RegisteredReply == [whois |-> "registered", dns |-> "a", crt |-> "entries"]

\* A domain nobody has registered: WHOIS answers with a no-match phrase,
\* the name does not resolve and crt.sh knows no certificate.
FreeReply == [whois |-> "no_match", dns |-> "none", crt |-> "no_results"]

EvidenceReplies == {
    RegisteredReply,
    FreeReply,
    [whois |-> "no_match",   dns |-> "error", crt |-> "http_error"],
    [whois |-> "error",      dns |-> "none",  crt |-> "error"] }

(***************************************************************************)
(* findNameUsage                                                           *)
(***************************************************************************)

\* d.split('.')[0] and d.split('.').slice(1).join('.')
RECURSIVE BeforeDot(_)
BeforeDot(d) ==
    IF d = <<>> \/ Head(d) = "." THEN <<>> ELSE <<Head(d)>> \o BeforeDot(Tail(d))
AfterDot(d) == SubSeq(d, Len(BeforeDot(d)) + 2, Len(d))

\* The record the probe task builds for the candidate domain d.
ProbeRecord(d, o, reply) ==
        [url |-> [valid |-> TRUE, host |-> <<>>, path |-> <<>>,
                  raw |-> <<"h", "t", "t", "p", ":", "/", "/">> \o d],
         domain |-> d, hostname |-> d, tld |-> AfterDot(d), sld |-> BeforeDot(d),
         title |-> <<>>,
         match_type |-> "exact_domain", match_score |-> 100,
         social_platform |-> NULL, social_username |-> <<>>,
         whois |-> IF o.doWhois THEN checkWhois(reply.whois) ELSE NoWhois,
         dns   |-> checkDns(reply.dns),
         crt   |-> IF o.doCrt THEN checkCrtSh(reply.crt) ELSE NoCrt,
         origin |-> "probe",
         social_verified |-> FALSE, social_probe_status |-> NULL,
         social_probe_confidence |-> NULL, social_exists |-> NULL]

\* processUrlForName(name, u, idx, concurrency); ob = [url, registrable, title]
\* is the URL with what the domain parser and the page fetch give for it.
processUrlForName(n, ob) ==
    LET dn  == safeDomainInfo(ob.url, ob.registrable)
        res == classifyMatch(n, [sld |-> dn.sld, url |-> ob.url, title |-> ob.title])
    IN  [url |-> ob.url,
         domain |-> dn.domain, hostname |-> dn.hostname, tld |-> dn.tld, sld |-> dn.sld,
         title |-> ob.title,
         match_type |-> res.type, match_score |-> res.score,
         social_platform |-> res.social.platform, social_username |-> res.social.username,
         whois |-> NoWhois, dns |-> NoDns, crt |-> NoCrt,
         origin |-> "search",
         social_verified |-> FALSE, social_probe_status |-> NULL,
         social_probe_confidence |-> NULL, social_exists |-> NULL]

StrictTypes == {"exact_domain", "social_exact", "org_title_exact"}
SixTypes == {"exact_domain", "domain_contains", "social_exact", "social_contains",
             "org_title_exact", "org_title_contains"}

\* The predicate of combined.filter(...)
KeepRecord(r, o) ==
    IF ~o.allowMentions /\ r.match_type = "mention" THEN FALSE
    ELSE IF o.strict THEN r.match_type \in StrictTypes
    ELSE r.match_type \in SixTypes

RECURSIVE FilterSeq(_, _)
FilterSeq(list, o) ==
    IF list = <<>> THEN <<>>
    ELSE IF KeepRecord(Head(list), o)
         THEN <<Head(list)>> \o FilterSeq(Tail(list), o)
         ELSE FilterSeq(Tail(list), o)

\* r.match_type.startsWith('social')
StartsWithSocial(type) == type \in {"social_exact", "social_contains", "social_probe"}

\* The deduplication key of a record.  The url is reached only for a URL
\* that did not parse, whose text is kept in raw.
DedupKey(r) ==
    IF StartsWithSocial(r.match_type) /\ r.social_platform # NULL /\ r.social_username # <<>>
    THEN <<r.social_platform, ":">> \o ToLower(r.social_username)
    ELSE ToLower(OrElse(r.domain, OrElse(r.hostname, r.url.raw)))

\* Array.prototype.sort with (a, b) => b.match_score - a.match_score: a
\* stable sort, highest score first.
RECURSIVE InsertByScore(_, _)
InsertByScore(sorted, r) ==
    IF sorted = <<>> THEN <<r>>
    ELSE IF Head(sorted).match_score >= r.match_score
         THEN <<Head(sorted)>> \o InsertByScore(Tail(sorted), r)
         ELSE <<r>> \o sorted

RECURSIVE SortByScore(_)
SortByScore(list) ==
    IF list = <<>> THEN <<>>
    ELSE InsertByScore(SortByScore(SubSeq(list, 1, Len(list) - 1)), list[Len(list)])

\* The loop over the sorted records: keep the first record of every key.
RECURSIVE KeepFirstPerKey(_, _, _)
KeepFirstPerKey(sorted, seen, kept) ==
    IF sorted = <<>> THEN kept
    ELSE LET r   == Head(sorted)
             key == DedupKey(r)
         IN  IF key = <<>> \/ key \in seen
             THEN KeepFirstPerKey(Tail(sorted), seen, kept)
             ELSE KeepFirstPerKey(Tail(sorted), seen \cup {key}, Append(kept, r))

\* The loop of the deduplication step run over the records as they stand,
\* without the sort.
DedupeUnsorted(list) == KeepFirstPerKey(list, {}, <<>>)

Dedupe(list) == KeepFirstPerKey(SortByScore(list), {}, <<>>)

\* The enrichment loop: a record whose domain is a probed domain is skipped.
EnrichRecord(r, probed, o, reply) ==
    IF \E i \in 1..Len(probed) : probed[i].domain = r.domain THEN r
    ELSE IF r.domain # <<>>
    THEN [r EXCEPT !.whois = IF o.doWhois THEN checkWhois(reply.whois) ELSE @,
                   !.dns   = checkDns(reply.dns),
                   !.crt   = IF o.doCrt THEN checkCrtSh(reply.crt) ELSE @]
    ELSE r

PROBE_PLATFORMS == <<"instagram", "facebook", "youtube", "twitter", "tiktok", "linkedin",
                     "github">>

\* The record created for a platform that no search record covers.
SocialRecord(platform, cleanName, probeData) ==
    [url |-> [valid |-> TRUE, host |-> <<platform, "com">>, path |-> <<cleanName>>,
              raw |-> <<>>],
     domain |-> <<>>, hostname |-> <<>>, tld |-> <<>>, sld |-> <<>>, title |-> <<>>,
     match_type |-> IF probeData.status = "taken" THEN "social_exact" ELSE "social_probe",
     match_score |-> IF probeData.status = "taken" THEN 90 ELSE 0,
     social_platform |-> platform, social_username |-> cleanName,
     whois |-> NoWhois, dns |-> NoDns, crt |-> NoCrt,
     origin |-> "social_probe",
     social_verified |-> TRUE, social_probe_status |-> probeData.status,
     social_probe_confidence |-> probeData.confidence, social_exists |-> probeData.exists]

\* The index of the first record of list for the platform and user name, 0
\* when there is none (dedup.find).
FirstIndex(list, platform, username) ==
    LET hits == {i \in 1..Len(list) :
                    list[i].social_platform = platform /\ list[i].social_username = username}
    IN  IF hits = {} THEN 0 ELSE CHOOSE i \in hits : \A j \in hits : i <= j

\* Object.entries(socialProbeResults).forEach(...): st = [dedup, socialResults]
RECURSIVE MergeSocial(_, _, _, _)
MergeSocial(entries, st, cleanName, o) ==
    IF entries = <<>> THEN st
    ELSE LET e == Head(entries)
             k == FirstIndex(st.dedup, e.platform, cleanName)
             next ==
                IF k > 0
                THEN [st EXCEPT !.dedup[k] =
                        [@ EXCEPT !.social_verified = TRUE,
                                  !.social_probe_status = e.data.status,
                                  !.social_probe_confidence = e.data.confidence,
                                  !.social_exists = e.data.exists]]
                ELSE IF e.data.status = "taken" \/ ~o.onlyFound
                THEN [st EXCEPT !.socialResults =
                        Append(@, SocialRecord(e.platform, cleanName, e.data))]
                ELSE st
         IN  MergeSocial(Tail(entries), next, cleanName, o)

\* computeUsageSources(r), as the set of its tags
computeUsageSources(r) ==
    LET whoisOk     == r.whois.present /\ r.whois.ok
        whoisLikely == IF whoisOk THEN r.whois.likelyAvailable ELSE FALSE
        dnsResolves == r.dns.present /\ r.dns.resolves
        crtCount    == IF r.crt.present /\ r.crt.ok THEN r.crt.entries ELSE 0
    IN  (IF whoisOk /\ ~whoisLikely THEN {"WHOIS"} ELSE {})
        \cup (IF dnsResolves THEN {"DNS"} ELSE {})
        \cup (IF crtCount > 0 THEN {"crt.sh"} ELSE {})
        \cup (IF r.match_type \in {"social_exact", "social_contains"} THEN {"social"} ELSE {})
        \cup (IF r.match_type \in {"org_title_exact", "org_title_contains"}
              THEN {"org_title"} ELSE {})
        \cup (IF r.match_type \in {"exact_domain", "domain_contains"}
              THEN {"domain_present"} ELSE {})
        \cup (IF r.origin = "search" THEN {"search_hit"} ELSE {})
        \cup (IF r.origin = "probe" THEN {"probe_hit"} ELSE {})

RECURSIVE EvidenceFilter(_, _)
EvidenceFilter(list, o) ==
    IF list = <<>> THEN <<>>
    ELSE IF ~o.onlyFound \/ computeUsageSources(Head(list)) # {}
         THEN <<Head(list)>> \o EvidenceFilter(Tail(list), o)
         ELSE EvidenceFilter(Tail(list), o)

\* calculateSocialScore(results): [score, platforms]
CRITICAL_PLATFORMS == <<"instagram", "facebook", "linkedin", "twitter">>

\* socialResults.find(r => r.social_platform === platform): the index of the
\* first social record of the platform, 0 when there is none.
FirstOfPlatform(list, platform) ==
    LET hits == {i \in 1..Len(list) :
                    /\ (list[i].social_platform # NULL \/ StartsWithSocial(list[i].match_type))
                    /\ list[i].social_platform = platform}
    IN  IF hits = {} THEN 0 ELSE CHOOSE i \in hits : \A j \in hits : i <= j

PlatformStatus(list, platform) ==
    LET k == FirstOfPlatform(list, platform)
    IN  IF k > 0 /\ list[k].social_verified
        THEN IF list[k].social_probe_status = "taken" THEN "taken" ELSE "available"
        ELSE IF k > 0 THEN "taken"
        ELSE "available"

\* Math.round(n / d) for n >= 0, d > 0
RoundDiv(n, d) == (2 * n + d) \div (2 * d)

calculateSocialScore(list) ==
    LET platformStatus == [i \in 1..Len(CRITICAL_PLATFORMS) |->
                              PlatformStatus(list, CRITICAL_PLATFORMS[i])]
        availableCount == Cardinality({i \in 1..Len(CRITICAL_PLATFORMS) :
                                          platformStatus[i] = "available"})
    IN  [score |-> RoundDiv(availableCount * 100, Len(CRITICAL_PLATFORMS)),
         platforms |-> platformStatus]

(***************************************************************************)
(* The brand score                                                         *)
(***************************************************************************)

\* r.match_type.includes('domain'), .includes('exact'), .includes('org_title')
IncludesDomain(type) == type \in {"exact_domain", "domain_contains"}
IncludesExact(type) == type \in {"exact_domain", "social_exact", "org_title_exact"}
IncludesOrgTitle(type) == type \in {"org_title_exact", "org_title_contains"}

\* criticalTLDs of calculateDomainScore
CRITICAL_TLDS == <<<<"c", "o", "m">>, <<"c", "o", ".", "i", "d">>, <<"i", "d">>, <<"i", "o">>>>

\* dnsTaken || crtTaken || whoisTaken
ShowsTaken(r) ==
    \/ r.dns.present /\ r.dns.resolves
    \/ r.crt.present /\ r.crt.ok /\ r.crt.entries > 0
    \/ r.whois.present /\ r.whois.ok /\ ~r.whois.likelyAvailable

\* The predicate of domainResults.find(...) for the TLD tld.
FoundTaken(r, tld) ==
    /\ IncludesDomain(r.match_type)
    /\ r.domain # <<>>
    /\ EndsWith(r.domain, <<".">> \o tld)
    /\ ShowsTaken(r)

\* calculateDomainScore(results): [score, available]
calculateDomainScore(list) ==
    LET total == Len(CRITICAL_TLDS)
        availableCritical ==
            {i \in 1..total : ~\E k \in 1..Len(list) : FoundTaken(list[k], CRITICAL_TLDS[i])}
        n == Cardinality(availableCritical)
    IN  [score |-> IF n = total THEN 100
                   ELSE IF 4 * n >= 3 * total THEN 80
                   ELSE IF 2 * n >= total THEN 60
                   ELSE IF n > 0 THEN 40
                   ELSE 20,
         available |-> n]

\* calculateTrademarkRisk(results): [score, exactMatches, orgMatches]
calculateTrademarkRisk(list) ==
    LET exactMatches == Cardinality({k \in 1..Len(list) : IncludesExact(list[k].match_type)})
        orgMatches   == Cardinality({k \in 1..Len(list) : IncludesOrgTitle(list[k].match_type)})
    IN  [score |-> IF exactMatches = 0 /\ orgMatches = 0 THEN 100
                   ELSE IF exactMatches = 0 /\ orgMatches <= 2 THEN 80
                   ELSE IF exactMatches <= 2 THEN 60
                   ELSE IF exactMatches <= 5 THEN 40
                   ELSE 20,
         exactMatches |-> exactMatches,
         orgMatches |-> orgMatches]

VowelChars == {"a", "e", "i", "o", "u"}
ConsonantChars == LowerAsciiLetters \ VowelChars

\* s.replace(/[^...]/g, '') for the character class keep
RECURSIVE KeepChars(_, _)
KeepChars(s, keep) ==
    IF s = <<>> THEN <<>>
    ELSE IF Head(s) \in keep THEN <<Head(s)>> \o KeepChars(Tail(s), keep)
    ELSE KeepChars(Tail(s), keep)

CountChars(s, class) == Cardinality({i \in 1..Len(s) : s[i] \in class})

\* /([bcdfghjklmnpqrstvwxyz]{4,})/.test(s)
HasConsonantRun(s) ==
    \E i \in 1..(Len(s) - 3) : \A j \in i..(i + 3) : s[j] \in ConsonantChars

\* commonWords of checkSEOFriendliness
COMMON_WORDS == {
    <<"t", "e", "c", "h">>, <<"d", "i", "g", "i", "t", "a", "l">>,
    <<"s", "o", "l", "u", "t", "i", "o", "n", "s">>, <<"g", "r", "o", "u", "p">>,
    <<"i", "n", "t", "e", "r", "n", "a", "t", "i", "o", "n", "a", "l">>,
    <<"g", "l", "o", "b", "a", "l">>, <<"i", "n", "d", "o">>, <<"n", "u", "s", "a">> }

\* checkSEOFriendliness(name).percentage
checkSEOFriendliness(n) ==
    LET cleanName  == KeepChars(ToLower(n), LowerAsciiLetters \cup DigitChars \cup {"-"})
        length     == Len(cleanName)
        vowels     == CountChars(cleanName, VowelChars)
        consonants == CountChars(cleanName, ConsonantChars)
        lengthPts  == IF length >= 6 /\ length <= 15 THEN 15
                      ELSE IF length >= 4 /\ length <= 20 THEN 10
                      ELSE 5
        charPts    == IF length > 0 /\ \A i \in 1..length : cleanName[i] \in LowerAsciiLetters
                      THEN 20
                      ELSE IF length > 0 /\ \A i \in 1..length :
                                               cleanName[i] \in LowerAsciiLetters \cup DigitChars
                      THEN 15
                      ELSE IF Includes(cleanName, <<"-">>) THEN 10
                      ELSE 0
        \* vowelRatio is NaN for 0 / 0, and every comparison with it is false
        memoryPts  == IF vowels + consonants > 0
                         /\ 10 * vowels >= 3 * (vowels + consonants)
                         /\ 2 * vowels <= vowels + consonants
                      THEN 25 ELSE 15
        soundPts   == IF ~HasConsonantRun(cleanName) THEN 20 ELSE 10
        uniquePts  == IF ~\E w \in COMMON_WORDS : Includes(cleanName, w) THEN 20 ELSE 10
        total      == lengthPts + charPts + memoryPts + soundPts + uniquePts
    IN  RoundDiv(total * 100, 100)

\* /(.{2,})\1/.test(s)
HasRepetition(s) ==
    \E i \in 1..Len(s) : \E l \in 2..Len(s) :
        /\ i + 2 * l - 1 <= Len(s)
        /\ SubSeq(s, i, i + l - 1) = SubSeq(s, i + l, i + 2 * l - 1)

\* (s.match(/[aeiou]+[^aeiou]*/g) || []).length: the number of maximal runs
\* of vowels.
SyllableCount(s) ==
    Cardinality({i \in 1..Len(s) : s[i] \in VowelChars /\ (i = 1 \/ s[i - 1] \notin VowelChars)})

IsSpaceOrHyphen(c) == c \in {" ", "-"}

\* name.split(/[\s-]+/).map(w => w.charAt(0).toLowerCase()): the first
\* letter of every piece, '' for an empty piece (before a leading and after
\* a trailing separator).
FirstLetters(n) ==
    LET starts == {i \in 1..Len(n) : ~IsSpaceOrHyphen(n[i]) /\ (i = 1 \/ IsSpaceOrHyphen(n[i - 1]))}
    IN  {<<LowerChar(n[i])>> : i \in starts}
        \cup (IF n = <<>> \/ IsSpaceOrHyphen(n[1]) \/ IsSpaceOrHyphen(n[Len(n)])
              THEN {<<>>} ELSE {})

\* The number of pieces of name.split(/[\s-]+/).
WordCount(n) ==
    Cardinality({i \in 1..Len(n) : ~IsSpaceOrHyphen(n[i]) /\ (i = 1 \/ IsSpaceOrHyphen(n[i - 1]))})
    + (IF n = <<>> THEN 1
       ELSE (IF IsSpaceOrHyphen(n[1]) THEN 1 ELSE 0)
            + (IF IsSpaceOrHyphen(n[Len(n)]) THEN 1 ELSE 0))

Min(a, b) == IF a <= b THEN a ELSE b

\* checkMemorability(name).percentage
checkMemorability(n) ==
    LET cleanName   == KeepChars(ToLower(n), LowerAsciiLetters)
        lengthPts   == IF Len(cleanName) <= 8 THEN 30
                       ELSE IF Len(cleanName) <= 12 THEN 20
                       ELSE 10
        patternPts  == IF HasRepetition(cleanName) THEN 20 ELSE 0
        syllables   == SyllableCount(cleanName)
        rhythmPts   == IF syllables >= 2 /\ syllables <= 3 THEN 25 ELSE 0
        alliterPts  == IF WordCount(n) >= 2 /\ Cardinality(FirstLetters(n)) = 1 THEN 25 ELSE 0
    IN  Min(100, lengthPts + patternPts + rhythmPts + alliterPts)

\* SCORING_WEIGHTS of the configuration
SCORING_WEIGHTS == [domainAvailability |-> 30, socialMediaAvailability |-> 25,
                    trademark |-> 20, seoFriendly |-> 15, memorability |-> 10]

\* The grade with the lower bounds taken as exclusive.
GradeExclusive(overall) ==
    IF overall > 90 THEN "A+ (Excellent)"
    ELSE IF overall > 80 THEN "A (Very Good)"
    ELSE IF overall > 70 THEN "B (Good)"
    ELSE IF overall > 60 THEN "C (Fair)"
    ELSE IF overall > 50 THEN "D (Poor)"
    ELSE "F (Not Recommended)"

\* The grade assigned by calculateBrandScore.
Grade(overall) ==
    IF overall >= 90 THEN "A+ (Excellent)"
    ELSE IF overall >= 80 THEN "A (Very Good)"
    ELSE IF overall >= 70 THEN "B (Good)"
    ELSE IF overall >= 60 THEN "C (Fair)"
    ELSE IF overall >= 50 THEN "D (Poor)"
    ELSE "F (Not Recommended)"

\* generateRecommendations(scoreData): the recommendations, in order, each
\* as [priority, category].
generateRecommendations(scoreData) ==
    (IF scoreData.breakdown.domainAvailability < 70
     THEN <<[priority |-> "high", category |-> "Domain"]>> ELSE <<>>)
    \o (IF scoreData.breakdown.socialMediaAvailability < 70
        THEN <<[priority |-> "medium", category |-> "Social Media"]>> ELSE <<>>)
    \o (IF scoreData.breakdown.trademarkRisk < 60
        THEN <<[priority |-> "high", category |-> "Legal"]>> ELSE <<>>)
    \o (IF scoreData.breakdown.seoFriendly < 60
        THEN <<[priority |-> "low", category |-> "SEO"]>> ELSE <<>>)
    \o (IF scoreData.overall >= 80
        THEN <<[priority |-> "info", category |-> "Overall"]>>
        ELSE IF scoreData.overall < 50
        THEN <<[priority |-> "high", category |-> "Overall"]>>
        ELSE <<>>)

\* The sum of the weighted sub-scores in hundredths: every weighted score is
\* score * weight / 100 with a score that is a multiple of 5, hence a multiple
\* of 1/4, which floating-point division and addition keep exact.
WeightedSum(breakdown) ==
    breakdown.domainAvailability * SCORING_WEIGHTS.domainAvailability
    + breakdown.socialMediaAvailability * SCORING_WEIGHTS.socialMediaAvailability
    + breakdown.trademarkRisk * SCORING_WEIGHTS.trademark
    + breakdown.seoFriendly * SCORING_WEIGHTS.seoFriendly
    + breakdown.memorability * SCORING_WEIGHTS.memorability

\* The overall score with the sum cut off instead of rounded.
OverallTruncated(breakdown) == WeightedSum(breakdown) \div 100

\* Math.round of the sum of the weighted sub-scores.
Overall(breakdown) == RoundDiv(WeightedSum(breakdown), 100)

\* calculateBrandScore(name, results)
calculateBrandScore(n, list) ==
    LET breakdown == [domainAvailability      |-> calculateDomainScore(list).score,
                      socialMediaAvailability |-> calculateSocialScore(list).score,
                      trademarkRisk           |-> calculateTrademarkRisk(list).score,
                      seoFriendly             |-> checkSEOFriendliness(n),
                      memorability            |-> checkMemorability(n)]
        overall   == Overall(breakdown)
        graded    == [overall |-> overall, breakdown |-> breakdown, grade |-> Grade(overall)]
    IN  [overall |-> overall, breakdown |-> breakdown, grade |-> graded.grade,
         details |-> [domainAvailable |-> calculateDomainScore(list).available],
         recommendations |-> generateRecommendations(graded)]

(***************************************************************************)
(* One run of findNameUsage, then the scoring of its results               *)
(***************************************************************************)

Names == {S_ab, S_PT_ab}

\* The most URLs a search returns.
MaxUrls == 2

\* The most platforms that answer anything but a plain 404 in one run.
MaxNotAvailable == 1

Url(host, path) == [valid |-> TRUE, host |-> host, path |-> path, raw |-> <<>>]

\* A search hit: the URL, how the domain parser reports its domain, and the
\* title of the fetched page.
SearchHits == {
    [url |-> Url(<<"ab", "com">>, <<>>), registrable |-> FALSE, title |-> <<>>],
    [url |-> Url(<<"other", "com">>, <<S_ab>>), registrable |-> FALSE, title |-> S_PT_ab],
    [url |-> Url(<<"other", "com">>, <<<<"x">>>>), registrable |-> FALSE,
     title |-> <<"P", "T", " ", "a", "b", "c">>],
    [url |-> Url(<<"other", "com">>, <<<<"y">>>>), registrable |-> FALSE, title |-> S_ab],
    [url |-> Url(<<"instagram", "com">>, <<<<"x">>, S_ab>>), registrable |-> FALSE,
     title |-> <<>>],
    [url |-> Url(<<"www", "instagram", "com">>, <<<<"p">>, <<"A", "B">>>>),
     registrable |-> TRUE, title |-> <<>>] }

\* Every list of at most n distinct elements of S.
RECURSIVE ListsUpTo(_, _)
ListsUpTo(S, n) ==
    IF n = 0 THEN {<<>>}
    ELSE LET shorter == ListsUpTo(S, n - 1)
             longest == {l \in shorter : Len(l) = n - 1}
         IN  shorter \cup {Append(l, x) : l \in longest, x \in S}

\* The options of a run; limit, concurrency, engine and debug do not reach
\* the steps below.
Options == [allowMentions : BOOLEAN, strict : BOOLEAN, onlyFound : BOOLEAN,
            probe : {"auto", "off"}, doWhois : {TRUE}, doCrt : {TRUE}]

\* What a platform answers to the requests of its checker.
Answer(status, marker) ==
    [status |-> status,
     body |-> IF marker
              THEN [empty |-> FALSE, notFound |-> FALSE, marker |-> TRUE, userIDs |-> <<>>]
              ELSE EmptyBody,
     redirect |-> NoRedirect]

NotFoundAnswer == Answer(404, FALSE)
\* fetchWithHeaders after a failed request: status 0.
NetworkError == Answer(0, FALSE)
OtherAnswers == {Answer(200, TRUE), Answer(403, FALSE), NetworkError}

\* What the platforms answer in a run: every platform a 404, except at most
\* MaxNotAvailable of them.
SocialAnswers ==
    UNION {{[p \in CheckerPlatforms |-> IF p \in S THEN f[p] ELSE NotFoundAnswer] :
               f \in [S -> OtherAnswers]} :
           S \in {T \in SUBSET CheckerPlatforms : Cardinality(T) <= MaxNotAvailable}}

\* probeSocialMedia(username, {platforms}): the entries of its result object,
\* in the order the platforms are probed; answers[p] is what platform p
\* answers to every request.
probeSocialMedia(platforms, answers) ==
    [i \in 1..Len(platforms) |->
        [platform |-> platforms[i],
         data |-> Checker(platforms[i], <<answers[platforms[i]], answers[platforms[i]]>>)]]

\* The most domains of a run that are not registered with all three
\* services answering.
MaxOtherReplies == 1

\* No domain has been asked about yet.
NoReplies == [d \in {} |-> RegisteredReply]

\* What the services can answer for the domains asked, given what they
\* answered for the domains asked before.
RepliesFor(asked, before) ==
    {[d \in DOMAIN before \cup asked |-> IF d \in DOMAIN before THEN before[d] ELSE f[d]] :
        f \in {g \in [asked -> EvidenceReplies] :
                  Cardinality({d \in asked : g[d] # RegisteredReply})
                  + Cardinality({d \in DOMAIN before : before[d] # RegisteredReply})
                  <= MaxOtherReplies}}

NoAnswers == [p \in CheckerPlatforms |-> NotFoundAnswer]

NoScore == [score |-> 0, platforms |-> <<>>]
NoOptions == [allowMentions |-> FALSE, strict |-> FALSE, onlyFound |-> TRUE,
              probe |-> "off", doWhois |-> TRUE, doCrt |-> TRUE]

(***************************************************************************)
(* calculateBrandScore applied to bounded names and record lists           *)
(***************************************************************************)

ScoreNames == {S_ab, S_PT_ab, S_linkpulse, <<>>, <<"b", "a", "b", "a">>, <<"t", "e", "c", "h">>,
               <<"a", "b", "-", "a", "c">>, <<"x", "t", "c", "h", "p", "1">>,
               <<"b", "a", "n", "a", "n", "a", "b", "a", "n", "a">>}

TakenReply == [whois |-> "registered", dns |-> "a", crt |-> "entries"]

TakenProbe == ProbeResult("true", "taken", "high", "Profile verified")
AvailableProbe == ProbeResult("false", "available", "high", "")

\* The records a list is drawn from, in the order they keep in a list.
ScoreRecords == <<
    ProbeRecord(<<"a", "b", ".", "c", "o", "m">>, NoOptions, TakenReply),
    ProbeRecord(<<"a", "b", ".", "c", "o", ".", "i", "d">>, NoOptions, TakenReply),
    ProbeRecord(<<"a", "b", ".", "i", "d">>, NoOptions, FreeReply),
    ProbeRecord(<<"a", "b", ".", "i", "o">>, NoOptions, TakenReply),
    ProbeRecord(<<"a", "b", ".", "n", "e", "t">>, NoOptions, TakenReply),
    ProbeRecord(<<"a", "b", ".", "i", "d">>, NoOptions, TakenReply),
    EnrichRecord(processUrlForName(S_PT_ab,
                     [url |-> Url(<<"other", "com">>, <<S_ab>>), registrable |-> FALSE,
                      title |-> S_PT_ab]),
                 <<>>, NoOptions, TakenReply),
    processUrlForName(S_ab, [url |-> Url(<<"other", "com">>, <<<<"x">>>>), registrable |-> FALSE,
                             title |-> <<"P", "T", " ", "a", "b", "c">>]),
    processUrlForName(S_ab, [url |-> Url(<<"instagram", "com">>, <<<<"x">>, S_ab>>),
                             registrable |-> FALSE, title |-> <<>>]),
    SocialRecord("facebook", S_ab, TakenProbe),
    SocialRecord("twitter", S_ab, AvailableProbe),
    SocialRecord("linkedin", S_ab, TakenProbe) >>

\* The most records in a scored list.
MaxScoreRecords == 6

\* The records of ScoreRecords whose index is in picked, in order.
RECURSIVE PickRecords(_, _)
PickRecords(k, picked) ==
    IF k > Len(ScoreRecords) THEN <<>>
    ELSE (IF k \in picked THEN <<ScoreRecords[k]>> ELSE <<>>) \o PickRecords(k + 1, picked)

ScoreLists ==
    {PickRecords(1, picked) :
        picked \in {I \in SUBSET (1..Len(ScoreRecords)) : Cardinality(I) <= MaxScoreRecords}}

NoBrandScore == [overall |-> 0,
                 breakdown |-> [domainAvailability |-> 0, socialMediaAvailability |-> 0,
                                trademarkRisk |-> 0, seoFriendly |-> 0, memorability |-> 0],
                 grade |-> "", details |-> [domainAvailable |-> 0], recommendations |-> <<>>]
ScrIdle == [phase |-> "idle", name |-> <<>>, results |-> <<>>, score |-> NoBrandScore]

ScoreInit ==
    scr \in {[phase |-> "in", name |-> n, results |-> l, score |-> NoBrandScore] :
                n \in ScoreNames, l \in ScoreLists}

\* One call calculateBrandScore(name, results).
Score ==
    /\ scr.phase = "in"
    /\ scr' = [scr EXCEPT !.phase = "out", !.score = calculateBrandScore(scr.name, scr.results)]
    /\ UNCHANGED <<cls, prb, nrm, srch, bulk, pipeVars, taskVars>>

(***************************************************************************)
(* buildCandidateDomains applied to bounded names                          *)
(***************************************************************************)

\* The characters a name is made of: a lower-case and an upper-case letter,
\* a digit, a hyphen, a space, an underscore, a punctuation mark and an
\* accented letter.
NameChars == {"a", "B", "1", "-", " ", "_", "!", "eacute"}

\* The longest name.
MaxNameLen == 4

NameInputs == SeqsUpTo(NameChars, MaxNameLen)

NrmIdle == [phase |-> "idle", input |-> <<>>, base |-> <<>>, again |-> <<>>,
            candidates |-> <<>>, classified |-> <<>>]

NormalizeInit ==
    nrm \in {[phase |-> "in", input |-> n, base |-> <<>>, again |-> <<>>,
              candidates |-> <<>>, classified |-> <<>>] : n \in NameInputs}

\* classifyMatch(name, { ...dn, url, title }) for the fields the probe task
\* gives the record of the candidate domain d.
ClassifyCandidate(n, d) ==
    LET r == ProbeRecord(d, NoOptions, RegisteredReply)
    IN  classifyMatch(n, [sld |-> r.sld, url |-> r.url, title |-> r.title])

\* One call buildCandidateDomains(name), with toDomainBase applied to the
\* name and once more to its own output, and the classifier applied to the
\* name and every candidate.
Normalize ==
    /\ nrm.phase = "in"
    /\ LET candidates == buildCandidateDomains(nrm.input)
       IN  nrm' = [nrm EXCEPT !.phase = "out",
                              !.base = toDomainBase(nrm.input),
                              !.again = toDomainBase(toDomainBase(nrm.input)),
                              !.candidates = candidates,
                              !.classified = [i \in 1..Len(candidates) |->
                                                 ClassifyCandidate(nrm.input, candidates[i])]]
    /\ UNCHANGED <<cls, prb, scr, srch, bulk, pipeVars, taskVars>>

(***************************************************************************)
(* searchUrlsForName applied to bounded provider outcomes                  *)
(***************************************************************************)

Engines == {"auto", "serpapi", "bing", "ddg", "multi"}
Providers == {"serpapi", "bing", "ddg"}

\* The largest limit option.
MaxLimit == 2

\* The most URLs a provider finds for a query.
MaxFound == 3

\* What a provider does when it is called: it throws, or it finds a number
\* of URLs.
ProviderOutcomes ==
    {[throws |-> TRUE, found |-> 0]} \cup {[throws |-> FALSE, found |-> n] : n \in 0..MaxFound}

\* The list a provider returns: the URLs it found, cut to num.
ProviderSearch(eng, outcome, num) ==
    [k \in 1..Min(outcome.found, num) |-> [engine |-> eng, rank |-> k]]

\* tryList of searchUrlsForName
TryList(engine) ==
    (IF engine \in {"serpapi", "auto"} THEN <<"serpapi">> ELSE <<>>)
    \o (IF engine \in {"bing", "auto", "multi"} THEN <<"bing">> ELSE <<>>)
    \o (IF engine \in {"ddg", "auto", "multi"} THEN <<"ddg">> ELSE <<>>)

SrchIdle == [phase |-> "idle", engine |-> "auto", key |-> FALSE, limit |-> 1,
             outcome |-> [p \in Providers |-> [throws |-> FALSE, found |-> 0]], tryList |-> <<>>, i |-> 0,
             called |-> <<>>, ret |-> <<>>]

SearchInit ==
    srch \in {[phase |-> "in", engine |-> e, key |-> k, limit |-> l, outcome |-> o,
               tryList |-> <<>>, i |-> 0, called |-> <<>>, ret |-> <<>>] :
                 e \in Engines, k \in BOOLEAN, l \in 1..MaxLimit,
                 o \in [Providers -> ProviderOutcomes]}

\* searchUrlsForName up to its loop: the list of engines to try.
StartSearch ==
    /\ srch.phase = "in"
    /\ srch' = [srch EXCEPT !.phase = "loop", !.tryList = TryList(srch.engine), !.i = 1]
    /\ UNCHANGED <<cls, prb, scr, nrm, bulk, pipeVars, taskVars>>

\* One turn of the loop over tryList: the engine is called unless it is
\* SerpApi without a key; a non-empty list is returned at once, an empty
\* list or an exception moves on to the next engine.
TryEngine ==
    /\ srch.phase = "loop"
    /\ srch.i <= Len(srch.tryList)
    /\ LET eng     == srch.tryList[srch.i]
           invoked == eng # "serpapi" \/ srch.key
           thrown  == invoked /\ srch.outcome[eng].throws
           r       == IF invoked /\ ~thrown
                      THEN ProviderSearch(eng, srch.outcome[eng], srch.limit) ELSE <<>>
           called  == IF invoked THEN Append(srch.called, eng) ELSE srch.called
       IN  srch' = IF Len(r) > 0
                   THEN [srch EXCEPT !.phase = "returned", !.called = called, !.ret = r]
                   ELSE [srch EXCEPT !.i = srch.i + 1, !.called = called]
    /\ UNCHANGED <<cls, prb, scr, nrm, bulk, pipeVars, taskVars>>

\* The loop is over without a result: return [].
ReturnEmpty ==
    /\ srch.phase = "loop"
    /\ srch.i > Len(srch.tryList)
    /\ srch' = [srch EXCEPT !.phase = "returned", !.ret = <<>>]
    /\ UNCHANGED <<cls, prb, scr, nrm, bulk, pipeVars, taskVars>>

(***************************************************************************)
(* The loop of main over the names of a run                                *)
(***************************************************************************)

\* The most names in an input file.
MaxNames == 3

\* What the analysis of one name does: it succeeds, findNameUsage throws, or
\* generateProfessionalReport throws.
NameOutcomes == {"ok", "usage_throws", "report_throws"}

BulkNames == {S_ab, S_PT_ab, S_linkpulse}

BulkIdle == [phase |-> "idle", names |-> <<>>, outcome |-> <<>>, professionalReport |-> TRUE,
             i |-> 0, started |-> <<>>, reports |-> <<>>, logged |-> <<>>]

\* main up to its loop: names holds at least one name.
BulkInit ==
    bulk \in {[phase |-> "usage", names |-> ns, outcome |-> os, professionalReport |-> pr,
               i |-> 1, started |-> <<>>, reports |-> <<>>, logged |-> <<>>] :
                 ns \in SeqsUpTo(BulkNames, MaxNames) \ {<<>>},
                 os \in SeqsUpTo(NameOutcomes, MaxNames),
                 pr \in BOOLEAN}
    /\ Len(bulk.names) = Len(bulk.outcome)

\* The loop moves to the next name, or main ends after the last one.
NextName(b) ==
    IF b.i < Len(b.names) THEN [b EXCEPT !.phase = "usage", !.i = b.i + 1]
    ELSE [b EXCEPT !.phase = "done"]

\* An exception of the loop body leaves main: no later name is analysed.
CatchAbort(b) ==
    [b EXCEPT !.phase = "done", !.logged = Append(b.logged, b.names[b.i])]

\* catch (e): the error is printed for the name and the loop goes on.
Catch(b) ==
    NextName([b EXCEPT !.logged = Append(b.logged, b.names[b.i])])

\* await findNameUsage(name, ...) for the name the loop is at.
AnalyzeName ==
    /\ bulk.phase = "usage"
    /\ LET b == [bulk EXCEPT !.started = Append(bulk.started, bulk.names[bulk.i])]
       IN  bulk' = IF bulk.outcome[bulk.i] = "usage_throws" THEN Catch(b)
                   ELSE IF bulk.professionalReport THEN [b EXCEPT !.phase = "report"]
                   ELSE NextName(b)
    /\ UNCHANGED <<cls, prb, scr, nrm, srch, pipeVars, taskVars>>

\* await generateProfessionalReport(name, ...) and the printed summary.
WriteReport ==
    /\ bulk.phase = "report"
    /\ bulk' = IF bulk.outcome[bulk.i] = "report_throws" THEN Catch(bulk)
               ELSE NextName([bulk EXCEPT !.reports = Append(bulk.reports, bulk.names[bulk.i])])
    /\ UNCHANGED <<cls, prb, scr, nrm, srch, pipeVars, taskVars>>

(***************************************************************************)
(* The limiter, the enrichment loop and the social probe loop              *)
(***************************************************************************)

\* The largest concurrency option of a run.
MaxConcurrency == 2

\* The number of TLDs probed in a run that is followed task by task.
MaxTaskTlds == 2

\* [...new Set(allTLDs)] of buildCandidateDomains
UniqueTLDs == Unique(BUSINESS_TLDS.global \o BUSINESS_TLDS.indonesia \o BUSINESS_TLDS.startup)

\* buildCandidateDomains(name) with the first tlds TLDs of the configuration.
CandidateDomains(n, tlds) ==
    LET base       == toDomainBase(n)
        uniqueTLDs == Prefix(UniqueTLDs, tlds)
        candidates == [i \in 1..Len(uniqueTLDs) |-> base \o <<".">> \o JoinDots(uniqueTLDs[i])]
    IN  Unique(candidates)

\* lim: pLimit(concurrency) with the tasks handed to it in one phase.
\*   kind      "probe" | "url" | "none"
\*   queue     the tasks that wait, first in first out
\*   step      per task: "queued", the operation it waits for, or "done"
\*   out       the array Promise.all resolves to, as far as it is filled
\*   finished  the tasks in the order they completed
LimIdle == [concurrency |-> 1, kind |-> "none", queue |-> <<>>, step |-> <<>>, out |-> <<>>,
            finished |-> <<>>]

NoCalls == [whois |-> 0, dns |-> 0, crt |-> 0]

\* enr: the loop `for (const r of dedup)`.
\*   k      the index of the record the loop is at
\*   step   "next" (loop head), the collector awaited, or "sleep"
\*   calls  per record, how often each collector was invoked for it
EnrIdle == [k |-> 0, step |-> "idle", calls |-> <<>>]

\* psm: one call of probeSocialMedia.
\*   phase   "loop" (loop head) | "probe" (a checker is awaited) | "sleep" | "returned"
\*   i       the index in platforms the loop is at
\*   results the entries of the results object, in insertion order
\*   log     what happened so far: a checker started, returned, the delay elapsed
SocIdle == [phase |-> "idle", platforms |-> <<>>, i |-> 0, results |-> <<>>, log |-> <<>>]

TaskIdle == lim = LimIdle /\ enr = EnrIdle /\ psm = SocIdle

\* The operations of a task that use the network.
NetworkSteps == {"whois", "dns", "crt", "fetch"}

\* The tasks that await an operation.
Awaiting(l) == {i \in 1..Len(l.step) : l.step[i] \notin {"queued", "done"}}

\* A count of the tasks started that a finished task never leaves.
startedCount(l) == Cardinality({i \in 1..Len(l.step) : l.step[i] # "queued"})

\* activeCount of the limiter: the tasks started and not yet finished.
activeCount(l) == Cardinality(Awaiting(l))

\* A limiter that starts whatever is queued.
CanStartAny(l) == l.queue # <<>>

\* p-limit starts the head of the queue while activeCount < concurrency.
CanStart(l) == activeCount(l) < l.concurrency /\ l.queue # <<>>

\* The first awaited operation of a task.
FirstStep(kind, o) ==
    IF kind = "url" THEN "sleep" ELSE IF o.doWhois THEN "whois" ELSE "dns"

\* The operation a task awaits after the operation s has completed.
NextStep(s, o) ==
    CASE s = "sleep" -> "fetch"
      [] s = "fetch" -> "done"
      [] s = "whois" -> "dns"
      [] s = "dns"   -> IF o.doCrt THEN "crt" ELSE "done"
      [] s = "crt"   -> "done"

\* An array filled in the order the tasks complete.
CollectAsCompleted(out, i, r) == Append(out, r)

\* Promise.all: the value of task i goes to index i of the array.
Collect(out, i, r) ==
    [j \in DOMAIN out \cup {i} |-> IF j = i THEN r ELSE out[j]]

\* The limiter with the tasks 1..n of a phase handed to it.
Enqueue(l, kind, n) ==
    [l EXCEPT !.kind = kind, !.queue = [i \in 1..n |-> i],
              !.step = [i \in 1..n |-> "queued"], !.out = <<>>, !.finished = <<>>]

\* The enrichment loop leaves a record alone.
SkipsNone(r, probed) == FALSE

\* `if (probeResults.find(pr => pr.domain === r.domain)) continue;` and the
\* test `if (r.domain)`.
SkipsEnrichment(r, probed) ==
    \/ \E j \in 1..Len(probed) : probed[j].domain = r.domain
    \/ r.domain = <<>>

\* The collector the enrichment loop awaits first, and after the collector s.
FirstCollector(o) == IF o.doWhois THEN "whois" ELSE "dns"
NextCollector(s, o) ==
    CASE s = "whois" -> "dns"
      [] s = "dns"   -> IF o.doCrt THEN "crt" ELSE "sleep"
      [] s = "crt"   -> "sleep"

\* The record with the result of the collector s stored in it.
WithEvidence(r, s, reply) ==
    CASE s = "whois" -> [r EXCEPT !.whois = checkWhois(reply.whois)]
      [] s = "dns"   -> [r EXCEPT !.dns = checkDns(reply.dns)]
      [] s = "crt"   -> [r EXCEPT !.crt = checkCrtSh(reply.crt)]

\* checkers[platform] is defined.
HasChecker(platform) == platform \in CheckerPlatforms

\* results[platform] = data
SetEntry(entries, platform, data) ==
    IF \E j \in 1..Len(entries) : entries[j].platform = platform
    THEN [j \in 1..Len(entries) |->
             IF entries[j].platform = platform THEN [platform |-> platform, data |-> data]
             ELSE entries[j]]
    ELSE Append(entries, [platform |-> platform, data |-> data])

\* platforms.indexOf(platform)
IndexOf(list, x) ==
    IF \E j \in 1..Len(list) : list[j] = x
    THEN CHOOSE j \in 1..Len(list) : list[j] = x /\ \A h \in 1..(j - 1) : list[h] # x
    ELSE 0

\* A loop that goes on to the next platform without waiting.
NeverSleeps(platforms, platform) == FALSE

\* `if (platforms.indexOf(platform) < platforms.length - 1) await sleep(delay)`
SleepsAfter(platforms, platform) == IndexOf(platforms, platform) < Len(platforms)

PipeIdle ==
    /\ pc = "idle" /\ name = <<>> /\ opts = NoOptions
    /\ probeResults = <<>> /\ urls = <<>> /\ processed = <<>> /\ combined = <<>>
    /\ dedup = <<>> /\ socialProbeResults = <<>> /\ results = <<>> /\ socialScore = NoScore
    /\ serviceReplies = NoReplies /\ platformAnswers = NoAnswers

\* findNameUsage(name, options) is called.
Init ==
    /\ cls = ClsIdle /\ prb = PrbIdle /\ scr = ScrIdle /\ nrm = NrmIdle
    /\ srch = SrchIdle /\ bulk = BulkIdle /\ TaskIdle
    /\ pc = "probe"
    /\ name \in Names
    /\ opts \in Options
    /\ probeResults = <<>> /\ urls = <<>> /\ processed = <<>> /\ combined = <<>>
    /\ dedup = <<>> /\ socialProbeResults = <<>> /\ results = <<>> /\ socialScore = NoScore
    /\ serviceReplies = NoReplies /\ platformAnswers = NoAnswers

\* 0) Direct probe of the candidate domains.
ProbeDomains ==
    /\ pc = "probe"
    /\ LET candidates == IF opts.probe \in {"always", "auto"}
                         THEN buildCandidateDomains(name) ELSE <<>>
           asked      == {candidates[i] : i \in 1..Len(candidates)}
       IN  \E replies \in RepliesFor(asked, serviceReplies) :
              /\ serviceReplies' = replies
              /\ probeResults' = [i \in 1..Len(candidates) |->
                                     ProbeRecord(candidates[i], opts, replies[candidates[i]])]
    /\ pc' = "search"
    /\ UNCHANGED <<callVars, taskVars, platformAnswers,
                   name, opts, urls, processed, combined, dedup,
                   socialProbeResults, results, socialScore>>

\* 1) The search answers with a list of URLs.
SearchWeb ==
    /\ pc = "search"
    /\ urls' \in ListsUpTo(SearchHits, MaxUrls)
    /\ pc' = "process"
    /\ UNCHANGED <<callVars, taskVars, serviceReplies, platformAnswers,
                   name, opts, probeResults, processed, combined, dedup,
                   socialProbeResults, results, socialScore>>

\* Every URL is fetched and classified; combined = [...probeResults, ...processed].
ProcessUrls ==
    /\ pc = "process"
    /\ processed' = [i \in 1..Len(urls) |-> processUrlForName(name, urls[i])]
    /\ combined' = probeResults \o processed'
    /\ pc' = "filter"
    /\ UNCHANGED <<callVars, taskVars, serviceReplies, platformAnswers,
                   name, opts, probeResults, urls, dedup,
                   socialProbeResults, results, socialScore>>

\* 2) Filter
FilterCombined ==
    /\ pc = "filter"
    /\ combined' = FilterSeq(combined, opts)
    /\ pc' = "dedupe"
    /\ UNCHANGED <<callVars, taskVars, serviceReplies, platformAnswers,
                   name, opts, probeResults, urls, processed, dedup,
                   socialProbeResults, results, socialScore>>

\* 3) Dedupe; combined.sort(...) sorts combined in place.
DedupeCombined ==
    /\ pc = "dedupe"
    /\ combined' = SortByScore(combined)
    /\ dedup' = Dedupe(combined)
    /\ pc' = "enrich"
    /\ UNCHANGED <<callVars, taskVars, serviceReplies, platformAnswers,
                   name, opts, probeResults, urls, processed,
                   socialProbeResults, results, socialScore>>

\* 4) Enrichment of the records that come from the search.
Enrich ==
    /\ pc = "enrich"
    /\ LET asked == {dedup[i].domain : i \in {k \in 1..Len(dedup) :
                        /\ dedup[k].domain # <<>>
                        /\ \A j \in 1..Len(probeResults) :
                               probeResults[j].domain # dedup[k].domain}}
       IN  \E replies \in RepliesFor(asked \ DOMAIN serviceReplies, serviceReplies) :
              /\ serviceReplies' = replies
              /\ dedup' = [i \in 1..Len(dedup) |->
                              EnrichRecord(dedup[i], probeResults, opts,
                                           IF dedup[i].domain \in DOMAIN replies
                                           THEN replies[dedup[i].domain] ELSE RegisteredReply)]
    /\ pc' = "social"
    /\ UNCHANGED <<callVars, taskVars, platformAnswers,
                   name, opts, probeResults, urls, processed, combined,
                   socialProbeResults, results, socialScore>>

\* 4.5) The social platforms are probed for toDomainBase(name).
ProbeSocial ==
    /\ pc = "social"
    /\ \E answers \in SocialAnswers :
          /\ platformAnswers' = answers
          /\ socialProbeResults' = probeSocialMedia(PROBE_PLATFORMS, answers)
    /\ pc' = "merge"
    /\ UNCHANGED <<callVars, taskVars, serviceReplies,
                   name, opts, probeResults, urls, processed, combined,
                   dedup, results, socialScore>>

\* The probe results are merged into the records, the records without
\* evidence are dropped (5) and the list is returned.
MergeAndReturn ==
    /\ pc = "merge"
    /\ LET merged == MergeSocial(socialProbeResults,
                                 [dedup |-> dedup, socialResults |-> <<>>],
                                 toDomainBase(name), opts)
       IN  /\ dedup' = merged.dedup
           /\ results' = EvidenceFilter(merged.dedup \o merged.socialResults, opts)
    /\ pc' = "returned"
    /\ UNCHANGED <<callVars, taskVars, serviceReplies, platformAnswers,
                   name, opts, probeResults, urls, processed, combined,
                   socialProbeResults, socialScore>>

\* The report scores the returned records: calculateSocialScore(results).
ScoreSocial ==
    /\ pc = "returned"
    /\ socialScore' = calculateSocialScore(results)
    /\ pc' = "scored"
    /\ UNCHANGED <<callVars, taskVars, serviceReplies, platformAnswers,
                   name, opts, probeResults, urls, processed, combined, dedup,
                   socialProbeResults, results>>

Next ==
    \/ ProbeDomains
    \/ SearchWeb
    \/ ProcessUrls
    \/ FilterCombined
    \/ DedupeCombined
    \/ Enrich
    \/ ProbeSocial
    \/ MergeAndReturn
    \/ ScoreSocial

Spec == Init /\ [][Next]_vars

(***************************************************************************)
(* A run of findNameUsage, followed from await to await                    *)
(***************************************************************************)

\* The options of a run that is followed task by task.
TaskOptions == [allowMentions : {FALSE}, strict : {FALSE}, onlyFound : {TRUE},
                probe : {"auto", "off"}, doWhois : BOOLEAN, doCrt : {TRUE}]

\* What the search can find in such a run: the candidate domain itself and
\* two profile pages.
TaskHits == {
    [url |-> Url(<<"ab", "com">>, <<>>), registrable |-> FALSE, title |-> <<>>],
    [url |-> Url(<<"instagram", "com">>, <<<<"x">>, S_ab>>), registrable |-> FALSE,
     title |-> <<>>],
    [url |-> Url(<<"www", "instagram", "com">>, <<<<"p">>, <<"A", "B">>>>),
     registrable |-> TRUE, title |-> <<>>] }

\* The name of such a run, its candidate domains, and the record
\* processUrlForName builds for every URL the search can find.
TaskName == S_ab
TaskCandidates == CandidateDomains(TaskName, MaxTaskTlds)
TaskRecords == [hit \in TaskHits |-> processUrlForName(TaskName, hit)]

\* findNameUsage(name, options) is called; limitFn = pLimit(concurrency).
InitTasks ==
    /\ cls = ClsIdle /\ prb = PrbIdle /\ scr = ScrIdle /\ nrm = NrmIdle
    /\ srch = SrchIdle /\ bulk = BulkIdle
    /\ pc = "probe"
    /\ name = TaskName
    /\ opts \in TaskOptions
    /\ lim \in {[LimIdle EXCEPT !.concurrency = c] : c \in 1..MaxConcurrency}
    /\ enr = EnrIdle /\ psm = SocIdle
    /\ probeResults = <<>> /\ urls = <<>> /\ processed = <<>> /\ combined = <<>>
    /\ dedup = <<>> /\ socialProbeResults = <<>> /\ results = <<>> /\ socialScore = NoScore
    /\ serviceReplies = NoReplies /\ platformAnswers = NoAnswers

\* 0) candidates.map(d => limitFn(...)): one task per candidate domain is
\* handed to the limiter; with probe off there is nothing to do.
StartProbes ==
    /\ pc = "probe"
    /\ IF opts.probe \in {"always", "auto"}
       THEN lim' = Enqueue(lim, "probe", Len(TaskCandidates)) /\ pc' = "probing"
       ELSE lim' = lim /\ pc' = "search"
    /\ UNCHANGED <<callVars, enr, psm, serviceReplies, platformAnswers,
                   name, opts, probeResults, urls, processed, combined, dedup,
                   socialProbeResults, results, socialScore>>

\* The limiter starts the task at the head of its queue.  A probe task asks
\* the services about its domain, which fixes what they answer for it.
StartTask ==
    /\ pc \in {"probing", "processing"}
    /\ CanStart(lim)
    /\ LET i == Head(lim.queue)
       IN  /\ lim' = [lim EXCEPT !.queue = Tail(lim.queue),
                                 !.step[i] = FirstStep(lim.kind, opts)]
           /\ IF lim.kind = "probe"
              THEN serviceReplies' \in RepliesFor({TaskCandidates[i]} \ DOMAIN serviceReplies,
                                                  serviceReplies)
              ELSE serviceReplies' = serviceReplies
    /\ UNCHANGED <<callVars, enr, psm, platformAnswers,
                   name, opts, probeResults, urls, processed, combined, dedup,
                   socialProbeResults, results, socialScore, pc>>

\* The operation a running task awaits completes: the task goes on to its
\* next operation, or returns its record, which Promise.all stores.
OperationCompletes ==
    /\ pc \in {"probing", "processing"}
    /\ \E i \in Awaiting(lim) :
          LET s == NextStep(lim.step[i], opts)
              r == IF lim.kind = "probe"
                   THEN ProbeRecord(TaskCandidates[i], opts, serviceReplies[TaskCandidates[i]])
                   ELSE TaskRecords[urls[i]]
          IN  lim' = IF s = "done"
                     THEN [lim EXCEPT !.step[i] = "done", !.out = Collect(lim.out, i, r),
                                      !.finished = Append(lim.finished, i)]
                     ELSE [lim EXCEPT !.step[i] = s]
    /\ UNCHANGED <<callVars, enr, psm, serviceReplies, platformAnswers,
                   name, opts, probeResults, urls, processed, combined, dedup,
                   socialProbeResults, results, socialScore, pc>>

\* probeResults = await Promise.all(checks)
ProbesDone ==
    /\ pc = "probing"
    /\ \A i \in 1..Len(lim.step) : lim.step[i] = "done"
    /\ probeResults' = [i \in 1..Len(lim.step) |-> lim.out[i]]
    /\ lim' = [LimIdle EXCEPT !.concurrency = lim.concurrency]
    /\ pc' = "search"
    /\ UNCHANGED <<callVars, enr, psm, serviceReplies, platformAnswers,
                   name, opts, urls, processed, combined, dedup,
                   socialProbeResults, results, socialScore>>

\* 1) urls = await searchUrlsForName(...)
SearchReturns ==
    /\ pc = "search"
    /\ urls' \in ListsUpTo(TaskHits, MaxUrls)
    /\ pc' = "process"
    /\ UNCHANGED <<callVars, taskVars, serviceReplies, platformAnswers,
                   name, opts, probeResults, processed, combined, dedup,
                   socialProbeResults, results, socialScore>>

\* urls.map((u, i) => limitFn(...)): one task per URL is handed to the limiter.
StartProcess ==
    /\ pc = "process"
    /\ lim' = Enqueue(lim, "url", Len(urls))
    /\ pc' = "processing"
    /\ UNCHANGED <<callVars, enr, psm, serviceReplies, platformAnswers,
                   name, opts, probeResults, urls, processed, combined, dedup,
                   socialProbeResults, results, socialScore>>

\* processed = await Promise.all(...); combined = [...probeResults, ...processed]
ProcessDone ==
    /\ pc = "processing"
    /\ \A i \in 1..Len(lim.step) : lim.step[i] = "done"
    /\ processed' = [i \in 1..Len(lim.step) |-> lim.out[i]]
    /\ combined' = probeResults \o processed'
    /\ lim' = [LimIdle EXCEPT !.concurrency = lim.concurrency]
    /\ pc' = "filter"
    /\ UNCHANGED <<callVars, enr, psm, serviceReplies, platformAnswers,
                   name, opts, probeResults, urls, dedup,
                   socialProbeResults, results, socialScore>>

\* The enrichment loop with the collector s invoked for the record it is at.
Invoke(e, s) == [e EXCEPT !.step = s, !.calls[e.k][s] = @ + 1]

\* 4) The head of the loop `for (const r of dedup)`: the loop ends, skips
\* the record, or awaits the first collector for its domain.
EnrichNext ==
    /\ pc = "enrich"
    /\ enr.step \in {"idle", "next"}
    /\ LET k     == IF enr.step = "idle" THEN 1 ELSE enr.k
           calls == IF enr.step = "idle" THEN [i \in 1..Len(dedup) |-> NoCalls] ELSE enr.calls
           e     == [k |-> k, step |-> "next", calls |-> calls]
       IN  IF k > Len(dedup)
           THEN enr' = [e EXCEPT !.step = "done"] /\ pc' = "social"
                /\ serviceReplies' = serviceReplies
           ELSE IF SkipsEnrichment(dedup[k], probeResults)
           THEN enr' = [e EXCEPT !.k = k + 1] /\ pc' = pc
                /\ serviceReplies' = serviceReplies
           ELSE /\ enr' = Invoke(e, FirstCollector(opts)) /\ pc' = pc
                /\ serviceReplies' \in RepliesFor({dedup[k].domain} \ DOMAIN serviceReplies,
                                                  serviceReplies)
    /\ UNCHANGED <<callVars, lim, psm, platformAnswers,
                   name, opts, probeResults, urls, processed, combined, dedup,
                   socialProbeResults, results, socialScore>>

\* The collector the loop awaits returns: its result is stored in the
\* record, and the loop awaits the next collector or sleep(100).
CollectorReturns ==
    /\ pc = "enrich"
    /\ enr.step \in {"whois", "dns", "crt"}
    /\ LET s == NextCollector(enr.step, opts)
       IN  /\ dedup' = [dedup EXCEPT ![enr.k] =
                           WithEvidence(@, enr.step, serviceReplies[@.domain])]
           /\ enr' = IF s = "sleep" THEN [enr EXCEPT !.step = s] ELSE Invoke(enr, s)
    /\ UNCHANGED <<callVars, lim, psm, serviceReplies, platformAnswers,
                   name, opts, probeResults, urls, processed, combined,
                   socialProbeResults, results, socialScore, pc>>

\* sleep(100) is over: the loop goes to the next record.
EnrichSlept ==
    /\ pc = "enrich"
    /\ enr.step = "sleep"
    /\ enr' = [enr EXCEPT !.k = enr.k + 1, !.step = "next"]
    /\ UNCHANGED <<callVars, lim, psm, serviceReplies, platformAnswers,
                   name, opts, probeResults, urls, processed, combined, dedup,
                   socialProbeResults, results, socialScore, pc>>

\* 4.5) probeSocialMedia(cleanName, {platforms: [...], delay: 800}) is called.
StartSocial ==
    /\ pc = "social"
    /\ psm.phase = "idle"
    /\ psm' = [phase |-> "loop", platforms |-> PROBE_PLATFORMS, i |-> 1,
               results |-> <<>>, log |-> <<>>]
    /\ UNCHANGED <<callVars, lim, enr, pipeVars>>

Event(ev, platform) == [ev |-> ev, platform |-> platform]

\* The head of the loop `for (const platform of platforms)`: the loop ends
\* and the results are returned, a platform without a checker is passed
\* over, or the checker of the platform is called.
SocialNext ==
    /\ psm.phase = "loop"
    /\ psm' = IF psm.i > Len(psm.platforms) THEN [psm EXCEPT !.phase = "returned"]
              ELSE IF ~HasChecker(psm.platforms[psm.i]) THEN [psm EXCEPT !.i = psm.i + 1]
              ELSE [psm EXCEPT !.phase = "probe",
                               !.log = Append(psm.log, Event("start", psm.platforms[psm.i]))]
    /\ UNCHANGED <<callVars, lim, enr, pipeVars>>

\* The checker returns: results[platform] is set, and the loop sleeps
\* unless the platform is the last of the list.
ProbeReturns ==
    /\ psm.phase = "probe"
    /\ LET platform == psm.platforms[psm.i]
           others   == {p \in CheckerPlatforms : platformAnswers[p] # NotFoundAnswer}
       IN  \E a \in {NotFoundAnswer} \cup
                    (IF Cardinality(others) < MaxNotAvailable THEN OtherAnswers ELSE {}) :
              /\ platformAnswers' = [platformAnswers EXCEPT ![platform] = a]
              /\ psm' = [psm EXCEPT
                           !.results = SetEntry(psm.results, platform,
                                                Checker(platform, <<a, a>>)),
                           !.log = Append(psm.log, Event("return", platform)),
                           !.phase = IF SleepsAfter(psm.platforms, platform)
                                     THEN "sleep" ELSE "loop",
                           !.i = IF SleepsAfter(psm.platforms, platform)
                                 THEN psm.i ELSE psm.i + 1]
    /\ UNCHANGED <<callVars, lim, enr, pc, name, opts, probeResults, urls, processed, combined,
                   dedup, socialProbeResults, results, socialScore, serviceReplies>>

\* sleep(delay) is over: the loop goes to the next platform.
DelayElapsed ==
    /\ psm.phase = "sleep"
    /\ psm' = [psm EXCEPT !.phase = "loop", !.i = psm.i + 1,
                          !.log = Append(psm.log, Event("slept", psm.platforms[psm.i]))]
    /\ UNCHANGED <<callVars, lim, enr, pipeVars>>

\* socialProbeResults = await probeSocialMedia(...)
SocialDone ==
    /\ pc = "social"
    /\ psm.phase = "returned"
    /\ socialProbeResults' = psm.results
    /\ pc' = "merge"
    /\ UNCHANGED <<callVars, taskVars, serviceReplies, platformAnswers,
                   name, opts, probeResults, urls, processed, combined,
                   dedup, results, socialScore>>

NextTasks ==
    \/ StartProbes
    \/ StartTask
    \/ OperationCompletes
    \/ ProbesDone
    \/ SearchReturns
    \/ StartProcess
    \/ ProcessDone
    \/ FilterCombined
    \/ DedupeCombined
    \/ EnrichNext
    \/ CollectorReturns
    \/ EnrichSlept
    \/ StartSocial
    \/ SocialNext
    \/ ProbeReturns
    \/ DelayElapsed
    \/ SocialDone
    \/ MergeAndReturn

SpecTasks == InitTasks /\ [][NextTasks]_vars

\* The steps that wait for the event loop: a task start, the completion of
\* an awaited operation or timer, the continuation after an await.
AwaitSteps ==
    \/ StartProbes
    \/ StartTask
    \/ OperationCompletes
    \/ ProbesDone
    \/ SearchReturns
    \/ StartProcess
    \/ ProcessDone
    \/ FilterCombined
    \/ EnrichNext
    \/ CollectorReturns
    \/ EnrichSlept
    \/ StartSocial
    \/ SocialNext
    \/ ProbeReturns
    \/ DelayElapsed
    \/ SocialDone

\* The synchronous blocks 3) and 4.5)-5): the sort with the deduplication
\* loop, and the merge with the final filter, run to their end.
DedupeStep == pc = "dedupe" /\ pc' = "enrich"
MergeStep == pc = "merge" /\ pc' = "returned"

\* The event loop runs every continuation that is ready, every awaited
\* operation and timer completes, and a synchronous block runs to its end.
SpecTasksFair ==
    SpecTasks /\ WF_vars(AwaitSteps) /\ WF_pc(DedupeStep) /\ WF_pc(MergeStep)

\* The platform names a caller can ask for; linktree has no checker.
AskedPlatforms == {"instagram", "twitter", "linktree"}

\* The longest list of platforms asked for.
MaxPlatforms == 3

\* probeSocialMedia(username, {platforms, delay}) is called.
InitSocial ==
    /\ cls = ClsIdle /\ prb = PrbIdle /\ scr = ScrIdle /\ nrm = NrmIdle
    /\ srch = SrchIdle /\ bulk = BulkIdle /\ PipeIdle
    /\ lim = LimIdle /\ enr = EnrIdle
    /\ psm \in {[phase |-> "loop", platforms |-> l, i |-> 1, results |-> <<>>, log |-> <<>>] :
                  l \in SeqsUpTo(AskedPlatforms, MaxPlatforms)}

NextSocial ==
    \/ SocialNext
    \/ ProbeReturns
    \/ DelayElapsed

SpecSocial == InitSocial /\ [][NextSocial]_vars

\* calculateBrandScore alone, over bounded names and record lists.
InitScore ==
    ScoreInit /\ cls = ClsIdle /\ prb = PrbIdle /\ nrm = NrmIdle
    /\ srch = SrchIdle /\ bulk = BulkIdle /\ PipeIdle /\ TaskIdle
NextScore == Score
SpecScore == InitScore /\ [][NextScore]_vars

\* buildCandidateDomains and toDomainBase alone, over bounded names.
InitNormalize ==
    NormalizeInit /\ cls = ClsIdle /\ prb = PrbIdle /\ scr = ScrIdle /\ srch = SrchIdle /\ bulk = BulkIdle
    /\ PipeIdle /\ TaskIdle
NextNormalize == Normalize
SpecNormalize == InitNormalize /\ [][NextNormalize]_vars

\* searchUrlsForName alone, over bounded provider outcomes.
InitSearch ==
    SearchInit /\ cls = ClsIdle /\ prb = PrbIdle /\ scr = ScrIdle /\ nrm = NrmIdle
    /\ bulk = BulkIdle /\ PipeIdle /\ TaskIdle
NextSearch ==
    \/ StartSearch
    \/ TryEngine
    \/ ReturnEmpty
SpecSearch == InitSearch /\ [][NextSearch]_vars

\* The loop of main alone, over bounded lists of names and outcomes.
InitBulk ==
    BulkInit /\ cls = ClsIdle /\ prb = PrbIdle /\ scr = ScrIdle /\ nrm = NrmIdle
    /\ srch = SrchIdle /\ PipeIdle /\ TaskIdle
NextBulk ==
    \/ AnalyzeName
    \/ WriteReport
SpecBulk == InitBulk /\ [][NextBulk]_vars

\* classifyMatch alone, over bounded queries and observations.
InitClassify ==
    ClassifyInit /\ prb = PrbIdle /\ scr = ScrIdle /\ nrm = NrmIdle
    /\ srch = SrchIdle /\ bulk = BulkIdle /\ PipeIdle /\ TaskIdle
NextClassify == Classify
SpecClassify == InitClassify /\ [][NextClassify]_vars

\* The platform checkers alone, over bounded responses.
InitProbe ==
    ProbeInit /\ cls = ClsIdle /\ scr = ScrIdle /\ nrm = NrmIdle
    /\ srch = SrchIdle /\ bulk = BulkIdle /\ PipeIdle /\ TaskIdle
NextProbe == Check
SpecProbe == InitProbe /\ [][NextProbe]_vars

\* The run up to the deduplication step.
NextAggregate ==
    \/ ProbeDomains
    \/ SearchWeb
    \/ ProcessUrls
    \/ FilterCombined
    \/ DedupeCombined

SpecAggregate == Init /\ [][NextAggregate]_vars

(***************************************************************************)
(* Properties of classifyMatch                                             *)
(***************************************************************************)

RuleOrder == <<"exact_domain", "domain_contains", "social_exact", "social_contains",
               "org_title_exact", "org_title_contains", "mention">>
RuleScore == <<100, 80, 90, 70, 75, 60, 20>>

\* Whether the condition of rule number k holds for query q and observation obs.
RuleHolds(k, q, obs) ==
    LET qs   == slugLettersDigitsHyphen(q)
        sld  == slugLettersDigitsHyphen(obs.sld)
        user == extractSocialUsername(obs.url).username
        us   == slugLettersDigitsHyphen(user)
        ts   == slugLettersDigitsHyphen(obs.title)
    IN  CASE k = 1 -> sld # <<>> /\ sld = qs
          [] k = 2 -> sld # <<>> /\ (Includes(sld, qs) \/ Includes(qs, sld))
          [] k = 3 -> user # <<>> /\ us = qs
          [] k = 4 -> user # <<>> /\ (Includes(us, qs) \/ Includes(qs, us))
          [] k = 5 -> ts = qs /\ OrgTitleTest(obs.title)
          [] k = 6 -> Includes(ts, qs) /\ OrgTitleTest(obs.title)
          [] k = 7 -> TRUE

FirstRule(q, obs) == CHOOSE k \in 1..7 : RuleHolds(k, q, obs) /\ \A j \in 1..(k - 1) : ~RuleHolds(j, q, obs)

\* C2: classifyMatch returns the type of the first rule, in the order
\* exact_domain, domain_contains, social_exact, social_contains,
\* org_title_exact, org_title_contains, mention, whose condition holds, and
\* the score bound to that type: 100, 80, 90, 70, 75, 60, 20.
C2_FirstRuleWins ==
    cls.phase = "out" =>
        LET k == FirstRule(cls.q, cls.obs)
        IN  cls.res.type = RuleOrder[k] /\ cls.res.score = RuleScore[k]

\* A domain rule has won although the condition of social_exact holds too.
C2_Witness ==
    /\ cls.phase = "out"
    /\ cls.res.type = "domain_contains"
    /\ RuleHolds(3, cls.q, cls.obs)

\* The platform whose table entry has the host h.
PlatformOfHost(h) ==
    LET i == CHOOSE j \in 1..Len(SOCIAL_PLATFORMS) :
                \E k \in 1..Len(SOCIAL_PLATFORMS[j].dom) : SOCIAL_PLATFORMS[j].dom[k] = h
    IN  SOCIAL_PLATFORMS[i].platform

\* C3: for a profile URL https://<platform-host>/<username>/ whose user name
\* slug equals the query slug, and whose host SLD does not match the query,
\* classifyMatch returns social_exact, 90, the platform and the user name.
C3_ProfileUrlIsSocialExact ==
    /\ cls.phase = "out"
    /\ cls.obs.url \in ProfileUrls
    /\ slugLettersDigitsHyphen(cls.q) # <<>>
    /\ slugLettersDigitsHyphen(cls.obs.url.path[1]) = slugLettersDigitsHyphen(cls.q)
    /\ ~RuleHolds(1, cls.q, cls.obs) /\ ~RuleHolds(2, cls.q, cls.obs)
    => /\ cls.res.type = "social_exact"
       /\ cls.res.score = 90
       /\ cls.res.social = [platform |-> PlatformOfHost(cls.obs.url.host),
                            username |-> cls.obs.url.path[1]]

(***************************************************************************)
(* Properties of the platform checkers                                     *)
(***************************************************************************)

\* The response the returned result was decided on.
Deciding == prb.responses[prb.res.requests]

\* The notes that steer to a manual check.
ManualCheckNotes == {
    "Rate limited - check manually", "Blocked by Instagram - check manually",
    "Blocked by Facebook - check manually", "Blocked by YouTube - check manually",
    "Blocked by TikTok - check manually", "Blocked by LinkedIn - check manually",
    "Blocked by GitHub - check manually", "Blocked by platform - check manually",
    "LinkedIn rate limit - check manually", "Redirect detected - check manually",
    "Redirect/requires login - check manually", "Network error - check manually",
    "Could not verify - check manually", "Could not read response - check manually",
    "Could not verify userID pattern - check manually", HttpNote }

\* C6: a 200 response whose body holds neither a not-found phrase nor a
\* positive profile marker (for Facebook: no userID field either) yields
\* status unknown with confidence none, never taken.
C6_NoMarkerIsUnknown ==
    /\ prb.phase = "out"
    /\ Deciding.status = 200
    /\ ~Deciding.body.notFound /\ ~Deciding.body.marker /\ Deciding.body.userIDs = <<>>
    => prb.res.status = "unknown" /\ prb.res.confidence = "none"

\* A definitive negative: a 404, or a body with a not-found phrase (for
\* Facebook also a body whose only userID field is "0").
DefinitiveNegative(platform, response) ==
    \/ response.status = 404
    \/ response.body.notFound
    \/ platform = "facebook" /\ response.body.userIDs = <<<<"0">>>>

\* C7: a checker returns available with confidence high only on a
\* definitive negative.
C7_AvailableOnlyOnNegative ==
    prb.phase = "out" /\ prb.res.status = "available" /\ prb.res.confidence = "high"
    => DefinitiveNegative(prb.platform, Deciding)

\* C8: a response with status 403, 429 or 999 yields unknown with confidence
\* none and a note steering to a manual check, whatever the body holds.
C8_BlockedIsUnknown ==
    prb.phase = "out" /\ Deciding.status \in {403, 429, 999}
    => /\ prb.res.status = "unknown"
       /\ prb.res.confidence = "none"
       /\ prb.res.note \in ManualCheckNotes

(***************************************************************************)
(* Properties of findNameUsage and of the social score                     *)
(***************************************************************************)

\* C1: after the deduplication step no two surviving records share a dedup
\* key, every key of a filtered record has a surviving record, and the
\* surviving record of a key has the maximum match_score among the filtered
\* records with that key.
C1_DedupeKeepsBestPerKey ==
    pc = "enrich" =>
        /\ \A i, j \in 1..Len(dedup) : i # j => DedupKey(dedup[i]) # DedupKey(dedup[j])
        /\ \A i \in 1..Len(combined) :
              DedupKey(combined[i]) # <<>> =>
                 \E j \in 1..Len(dedup) :
                    /\ DedupKey(dedup[j]) = DedupKey(combined[i])
                    /\ dedup[j].match_score >= combined[i].match_score
        /\ \A j \in 1..Len(dedup) : \E i \in 1..Len(combined) : combined[i] = dedup[j]

\* Two filtered records of different scores share a key and one was dropped;
\* the record of lower score came first in the search.
C1_Witness ==
    /\ pc = "enrich"
    /\ Len(dedup) < Len(combined)
    /\ \E i, j \in 1..Len(processed) :
          /\ i < j
          /\ KeepRecord(processed[i], opts) /\ KeepRecord(processed[j], opts)
          /\ DedupKey(processed[i]) = DedupKey(processed[j])
          /\ processed[i].match_score < processed[j].match_score

\* C4: with allowMentions true and strict false a search record classified
\* as mention passes the filter and its key appears in the results; with
\* allowMentions false no mention record appears.
C4_MentionsPassWhenAllowed ==
    /\ pc = "dedupe" /\ opts.allowMentions /\ ~opts.strict
       => \A i \in 1..Len(processed) :
             processed[i].match_type = "mention"
                => \E j \in 1..Len(combined) : combined[j] = processed[i]
    /\ pc = "returned" /\ opts.allowMentions /\ ~opts.strict
       => \A i \in 1..Len(processed) :
             processed[i].match_type = "mention"
                => \E j \in 1..Len(results) : DedupKey(results[j]) = DedupKey(processed[i])
    /\ pc \in {"dedupe", "enrich", "social", "merge", "returned"} /\ ~opts.allowMentions
       => /\ \A j \in 1..Len(combined) : combined[j].match_type # "mention"
          /\ \A j \in 1..Len(results) : results[j].match_type # "mention"

\* The match types the filter mode permits.
PermittedTypes(o) ==
    IF o.strict THEN StrictTypes
    ELSE IF ~o.allowMentions THEN SixTypes
    ELSE SixTypes \cup {"mention"}

\* C5: every record of the returned list has a match type that the filter
\* mode permits.
C5_ReturnedTypesPermitted ==
    pc = "returned" =>
        \A i \in 1..Len(results) : results[i].match_type \in PermittedTypes(opts)

\* The result of the probe of a platform in this run.
ProbeOf(platform) ==
    LET i == CHOOSE k \in 1..Len(socialProbeResults) :
                socialProbeResults[k].platform = platform
    IN  socialProbeResults[i].data

\* C9: when the probe of a critical platform returned unknown, the social
\* score of the results does not count the platform as available.
C9_UnknownNotAvailable ==
    pc = "scored" =>
        \A i \in 1..Len(CRITICAL_PLATFORMS) :
            ProbeOf(CRITICAL_PLATFORMS[i]).status = "unknown"
               => socialScore.platforms[i] # "available"

\* C10: the social score counts a critical platform as available only if
\* the records hold no verified taken record and no record found by the
\* search for it, and the score is round(available / 4 * 100).
C10_AvailableOnlyIfNoRecord ==
    pc = "scored" =>
        /\ \A i \in 1..Len(CRITICAL_PLATFORMS) :
              socialScore.platforms[i] = "available"
                 => \A k \in 1..Len(results) :
                       results[k].social_platform = CRITICAL_PLATFORMS[i]
                          => /\ ~(results[k].social_verified
                                  /\ results[k].social_probe_status = "taken")
                             /\ results[k].origin # "search"
        /\ socialScore.score =
              RoundDiv(100 * Cardinality({i \in 1..Len(CRITICAL_PLATFORMS) :
                                             socialScore.platforms[i] = "available"}),
                       Len(CRITICAL_PLATFORMS))

(***************************************************************************)
(* C11: calculateDomainScore, one critical TLD at a time                   *)
(***************************************************************************)

\* A domain-type record whose own TLD is tld and that shows the domain taken.
TakenUnderOwnTld(r, tld) ==
    /\ IncludesDomain(r.match_type)
    /\ r.tld = tld
    /\ ShowsTaken(r)

\* The critical TLDs no record of list shows taken under its own TLD.
AvailableByOwnTld(list) ==
    {i \in 1..Len(CRITICAL_TLDS) :
        ~\E k \in 1..Len(list) : TakenUnderOwnTld(list[k], CRITICAL_TLDS[i])}

\* The domain score for a number of available critical TLDs.
DomainScoreTable(n) ==
    IF n = 4 THEN 100 ELSE IF n = 3 THEN 80 ELSE IF n = 2 THEN 60 ELSE IF n = 1 THEN 40 ELSE 20

\* C11: a critical TLD counts as available exactly when no domain-type
\* record whose TLD is that TLD shows DNS resolution, certificate entries or
\* a registered WHOIS; records of any other TLD leave it available; and the
\* domain score is 100, 80, 60, 40 or 20 for 4, 3, 2, 1 or 0 available TLDs.
C11_DomainScorePerTld ==
    scr.phase = "out" =>
        /\ scr.score.details.domainAvailable = Cardinality(AvailableByOwnTld(scr.results))
        /\ scr.score.breakdown.domainAvailability =
               DomainScoreTable(Cardinality(AvailableByOwnTld(scr.results)))

(***************************************************************************)
(* C12: the overall score of calculateBrandScore                           *)
(***************************************************************************)

\* The five sub-scores of a call, each computed by its own function.
SubScores(n, list) ==
    <<calculateDomainScore(list).score, calculateSocialScore(list).score,
      calculateTrademarkRisk(list).score, checkSEOFriendliness(n), checkMemorability(n)>>

\* The weights in percent, in the order of SubScores.
ClaimedWeights == <<30, 25, 20, 15, 10>>

\* The weighted sum of the sub-scores in hundredths.
ClaimedSum(n, list) ==
    LET s == SubScores(n, list)
    IN  s[1] * ClaimedWeights[1] + s[2] * ClaimedWeights[2] + s[3] * ClaimedWeights[3]
        + s[4] * ClaimedWeights[4] + s[5] * ClaimedWeights[5]

\* C12: the overall score is the weighted sum of the five sub-scores, with
\* weights 30, 25, 20, 15 and 10 percent, rounded to the nearest integer
\* (halves upwards), and lies in 0..100.
C12_OverallIsRoundedWeightedSum ==
    scr.phase = "out" =>
        /\ scr.score.overall \in 0..100
        /\ 2 * ClaimedSum(scr.name, scr.results) - 100 < 200 * scr.score.overall
        /\ 200 * scr.score.overall <= 2 * ClaimedSum(scr.name, scr.results) + 100

\* A returned score whose weighted sum ends in one half or more, so that it
\* is rounded upwards.
C12_Witness ==
    /\ scr.phase = "out"
    /\ ClaimedSum(scr.name, scr.results) % 100 >= 50
    /\ scr.score.overall = ClaimedSum(scr.name, scr.results) \div 100 + 1
    /\ scr.results # <<>>

(***************************************************************************)
(* C13: the grade of calculateBrandScore                                   *)
(***************************************************************************)

\* The grades with their inclusive lower bounds, best first.
GradeBounds == <<[from |-> 90, grade |-> "A+ (Excellent)"],
                 [from |-> 80, grade |-> "A (Very Good)"],
                 [from |-> 70, grade |-> "B (Good)"],
                 [from |-> 60, grade |-> "C (Fair)"],
                 [from |-> 50, grade |-> "D (Poor)"]>>

\* The grades whose range holds the overall score.
GradesOf(overall) ==
    {GradeBounds[i].grade : i \in {j \in 1..Len(GradeBounds) :
        /\ overall >= GradeBounds[j].from
        /\ j > 1 => overall < GradeBounds[j - 1].from}}
    \cup (IF overall < 50 THEN {"F (Not Recommended)"} ELSE {})

\* C13: the grade follows from the overall score by the inclusive lower
\* bounds 90 (A+), 80 (A), 70 (B), 60 (C), 50 (D), anything lower being F,
\* and every overall score has exactly one grade.
C13_GradeByInclusiveBounds ==
    scr.phase = "out" =>
        /\ Cardinality(GradesOf(scr.score.overall)) = 1
        /\ GradesOf(scr.score.overall) = {scr.score.grade}

\* A returned score that sits exactly on the lower bound of the best grade.
C13_Witness ==
    /\ scr.phase = "out"
    /\ scr.score.overall = 90
    /\ scr.score.grade = "A+ (Excellent)"

(***************************************************************************)
(* C14: the recommendations of calculateBrandScore                         *)
(***************************************************************************)

\* The number of recommendations of a category with a priority among prios.
CountRecommendations(recs, category, prios) ==
    Cardinality({i \in 1..Len(recs) : recs[i].category = category /\ recs[i].priority \in prios})

AllPriorities == {"high", "medium", "low", "info"}

\* C14: the recommendations hold the high-priority Domain recommendation
\* exactly when the domain score is below 70, and exactly one recommendation
\* about the overall score, whatever the overall score is.
C14_OneOverallRecommendation ==
    scr.phase = "out" =>
        /\ CountRecommendations(scr.score.recommendations, "Domain", {"high"}) =
               (IF scr.score.breakdown.domainAvailability < 70 THEN 1 ELSE 0)
        /\ CountRecommendations(scr.score.recommendations, "Overall", AllPriorities) = 1

(***************************************************************************)
(* C15: the labels of the candidate domains                                *)
(***************************************************************************)

\* A domain with an empty label: it starts or ends with a dot or holds two
\* adjacent dots.
HasEmptyLabel(d) ==
    \/ d = <<>>
    \/ Head(d) = "."
    \/ d[Len(d)] = "."
    \/ \E i \in 1..(Len(d) - 1) : d[i] = "." /\ d[i + 1] = "."

\* The configured TLDs as strings.
ConfiguredTlds ==
    LET all == BUSINESS_TLDS.global \o BUSINESS_TLDS.indonesia \o BUSINESS_TLDS.startup
    IN  {JoinDots(all[i]) : i \in 1..Len(all)}

\* C15: no candidate of buildCandidateDomains has an empty label; a name
\* whose domain base is empty yields no candidate; every candidate is the
\* non-empty base, a dot and a configured TLD.
C15_NoEmptyLabel ==
    nrm.phase = "out" =>
        /\ nrm.base = <<>> => nrm.candidates = <<>>
        /\ \A i \in 1..Len(nrm.candidates) :
               /\ ~HasEmptyLabel(nrm.candidates[i])
               /\ \E t \in ConfiguredTlds : nrm.candidates[i] = nrm.base \o <<".">> \o t

(***************************************************************************)
(* C16: toDomainBase                                                       *)
(***************************************************************************)

\* Only a-z, 0-9 and hyphen, no two adjacent hyphens, no hyphen at an end.
IsLabelSafe(b) ==
    /\ \A i \in 1..Len(b) : b[i] \in LowerAsciiLetters \cup DigitChars \cup {"-"}
    /\ \A i \in 1..(Len(b) - 1) : ~(b[i] = "-" /\ b[i + 1] = "-")
    /\ b # <<>> => Head(b) # "-" /\ b[Len(b)] # "-"

\* C16: toDomainBase applied to its own output gives that output again, and
\* the output holds only a-z, 0-9 and hyphens, never two hyphens in a row
\* and no hyphen at either end.
C16_IdempotentAndLabelSafe ==
    nrm.phase = "out" =>
        /\ nrm.again = nrm.base
        /\ IsLabelSafe(nrm.base)

\* A name with upper case, a removed character between hyphens and hyphens
\* at the ends, normalised to a base with an inner hyphen.
C16_Witness ==
    /\ nrm.phase = "out"
    /\ nrm.input # nrm.base
    /\ \E i \in 1..Len(nrm.input) : nrm.input[i] \in {"!", "eacute"}
    /\ \E i \in 1..Len(nrm.input) : nrm.input[i] \in {" ", "_"}
    /\ \E i \in 2..(Len(nrm.base) - 1) : nrm.base[i] = "-"
    /\ nrm.again = nrm.base

(***************************************************************************)
(* C17: only-found mode                                                    *)
(***************************************************************************)

\* A probed candidate domain without a registered WHOIS, without a DNS
\* answer and without certificate entries.
ProbedWithoutEvidence(r) ==
    /\ r.origin = "probe"
    /\ ~(r.whois.present /\ r.whois.ok /\ ~r.whois.likelyAvailable)
    /\ ~(r.dns.present /\ r.dns.resolves)
    /\ ~(r.crt.present /\ r.crt.ok /\ r.crt.entries > 0)

\* C17: with onlyFound set, the returned records hold no probed candidate
\* domain that has neither a registered WHOIS, nor a DNS answer, nor
\* certificate entries; such a candidate is returned only with onlyFound unset.
C17_OnlyFoundDropsBareCandidates ==
    (pc \in {"returned", "scored"} /\ opts.onlyFound) =>
        \A i \in 1..Len(results) : ~ProbedWithoutEvidence(results[i])

(***************************************************************************)
(* C18: the order of the search providers                                  *)
(***************************************************************************)

\* The providers in priority order, SerpApi only with a key.
PriorityOrder(key) == (IF key THEN <<"serpapi">> ELSE <<>>) \o <<"bing", "ddg">>

\* The providers of order up to the first one that finds a URL, all of them
\* when none does.
RECURSIVE CalledUntilFound(_, _)
CalledUntilFound(order, outcome) ==
    IF order = <<>> THEN <<>>
    ELSE IF ~outcome[Head(order)].throws /\ outcome[Head(order)].found > 0
         THEN <<Head(order)>>
         ELSE <<Head(order)>> \o CalledUntilFound(Tail(order), outcome)

\* C18: for the engines auto and multi the providers are called in the
\* order SerpApi (with a key), Bing, DuckDuckGo up to the first one that
\* returns a non-empty list, an exception counting as an empty list; that
\* list is returned, the empty list when no provider has a result, and never
\* more than limit URLs.
C18_ProvidersInPriorityOrder ==
    (srch.phase = "returned" /\ srch.engine \in {"auto", "multi"}) =>
        LET expected == CalledUntilFound(PriorityOrder(srch.key), srch.outcome)
            last     == expected[Len(expected)]
        IN  /\ srch.called = expected
            /\ srch.ret = IF ~srch.outcome[last].throws /\ srch.outcome[last].found > 0
                          THEN ProviderSearch(last, srch.outcome[last], srch.limit)
                          ELSE <<>>
            /\ Len(srch.ret) <= srch.limit

(***************************************************************************)
(* C19: a bulk run goes on after a failure                                 *)
(***************************************************************************)

\* Whether the analysis of the name at position k of a run fails.
Fails(b, k) ==
    \/ b.outcome[k] = "usage_throws"
    \/ b.professionalReport /\ b.outcome[k] = "report_throws"

\* The names at the positions 1..n whose analysis fails, in order.
RECURSIVE FailedNames(_, _)
FailedNames(b, n) ==
    IF n = 0 THEN <<>>
    ELSE FailedNames(b, n - 1) \o (IF Fails(b, n) THEN <<b.names[n]>> ELSE <<>>)

\* C19: the names are analysed one after another in the order of the input;
\* a failure of findNameUsage or of the report of a name is caught and
\* logged, and every later name is still analysed.
C19_BulkContinuesAfterFailure ==
    bulk.phase # "idle" =>
        /\ bulk.started = SubSeq(bulk.names, 1, Len(bulk.started))
        /\ Len(bulk.started) \in {bulk.i - 1, bulk.i}
        /\ bulk.phase = "done" =>
              /\ bulk.started = bulk.names
              /\ bulk.logged = FailedNames(bulk, Len(bulk.names))

\* A finished run in which the first name failed in findNameUsage, a later
\* name failed in its report and the last name was analysed and reported.
C19_Witness ==
    /\ bulk.phase = "done"
    /\ Len(bulk.names) = 3
    /\ bulk.outcome = <<"usage_throws", "report_throws", "ok">>
    /\ bulk.professionalReport
    /\ bulk.started = bulk.names
    /\ Len(bulk.logged) = 2
    /\ bulk.reports = <<bulk.names[3]>>

(***************************************************************************)
(* C20: failures of the collectors stay on their own record                *)
(***************************************************************************)

\* The evidence fields of the record r show what the services answered for
\* its own domain: a failed WHOIS or crt.sh call as ok: false, a failed DNS
\* lookup as resolves: false, and an answer as that answer.
ShowsOwnReplies(r) ==
    r.domain \in DOMAIN serviceReplies =>
        LET reply == serviceReplies[r.domain]
        IN  /\ (opts.doWhois /\ reply.whois = "error") => r.whois.present /\ ~r.whois.ok
            /\ reply.dns = "error" => r.dns.present /\ ~r.dns.resolves
            /\ (opts.doCrt /\ reply.crt \in {"http_error", "error"})
                  => r.crt.present /\ ~r.crt.ok
            /\ (opts.doWhois /\ reply.whois = "registered")
                  => r.whois.ok /\ ~r.whois.likelyAvailable
            /\ reply.dns \in {"a", "aaaa"} => r.dns.resolves
            /\ (opts.doCrt /\ reply.crt = "entries") => r.crt.ok /\ r.crt.entries > 0

\* The entry of the probe result for a platform whose requests failed is
\* unknown, and the entry of a platform that answered 404 is available.
ShowsOwnAnswer(entry) ==
    /\ platformAnswers[entry.platform] = NetworkError => entry.data.status = "unknown"
    /\ platformAnswers[entry.platform] = NotFoundAnswer => entry.data.status = "available"

TwitterNegative(response) ==
    \/ response.status = 404
    \/ response.status = 200 /\ response.body.notFound

ComparedSlugs(type, q, obs) ==
    LET qs == slugLettersDigitsHyphen(q)
    IN  CASE type = "domain_contains" -> <<slugLettersDigitsHyphen(obs.sld), qs>>
          [] type = "social_contains" ->
                <<slugLettersDigitsHyphen(extractSocialUsername(obs.url).username), qs>>
          [] type = "org_title_contains" -> <<slugLettersDigitsHyphen(obs.title), qs>>

\* C29: classifyMatch returns domain_contains, social_contains or
\* org_title_contains only when both compared slugs are non-empty, and for a
\* query whose slug is empty it returns mention for every observation.
C29_ContainmentNeedsNonEmptySlugs ==
    cls.phase = "out" =>
        /\ cls.res.type \in {"domain_contains", "social_contains", "org_title_contains"}
              => LET slugs == ComparedSlugs(cls.res.type, cls.q, cls.obs)
                 IN  slugs[1] # <<>> /\ slugs[2] # <<>>
        /\ slugLettersDigitsHyphen(cls.q) = <<>> => cls.res.type = "mention"

(***************************************************************************)
(* C28: the type of a probed record against the classifier                 *)
(***************************************************************************)

\* C28: for every name with a non-empty domain base, classifyMatch applied
\* to the name and to the sld, url and title of a probed candidate returns
\* the type and the score the probe task writes into the record:
\* exact_domain and 100.
C28_ProbeTypeAgreesWithClassifier ==
    nrm.phase = "out" /\ nrm.base # <<>> =>
        \A i \in 1..Len(nrm.candidates) :
            LET r == ProbeRecord(nrm.candidates[i], NoOptions, RegisteredReply)
            IN  /\ r.match_type = "exact_domain" /\ r.match_score = 100
                /\ nrm.classified[i].type = r.match_type
                /\ nrm.classified[i].score = r.match_score

(***************************************************************************)
(* C27: the trademark risk of a name nobody uses                           *)
(***************************************************************************)

\* The run found no usage: candidates were probed and every one of them is
\* likely available by WHOIS, does not resolve and has no certificate; the
\* search returned no URL; every platform probe returned available.
NoUsageEvidence ==
    /\ opts.probe \in {"always", "auto"}
    /\ Len(probeResults) > 0
    /\ \A i \in 1..Len(probeResults) :
          /\ probeResults[i].whois.ok /\ probeResults[i].whois.likelyAvailable
          /\ ~probeResults[i].dns.resolves
          /\ probeResults[i].crt.ok /\ probeResults[i].crt.entries = 0
    /\ urls = <<>>
    /\ \A k \in 1..Len(socialProbeResults) : socialProbeResults[k].data.status = "available"

\* C27: for a run that found no usage, calculateBrandScore of the returned
\* records gives the trademark risk score 100, and calculateTrademarkRisk
\* counts no exact match.
C27_NoEvidenceNoTrademarkRisk ==
    pc = "scored" /\ NoUsageEvidence =>
        /\ calculateBrandScore(name, results).breakdown.trademarkRisk = 100
        /\ calculateTrademarkRisk(results).exactMatches = 0

(***************************************************************************)
(* C26: one record for a platform and user name                            *)
(***************************************************************************)

\* The key platform:username of a record that names a social account, in
\* lower case as the deduplication step writes it.
SocialKey(r) == <<r.social_platform, ":">> \o ToLower(r.social_username)

HasSocialKey(r) == r.social_platform # NULL /\ r.social_username # <<>>

\* C26: the returned list holds at most one record for every lower-cased
\* key platform:username; no record of the social probe is added for a key
\* that a record found by the search already has.
C26_OneRecordPerSocialKey ==
    pc \in {"returned", "scored"} =>
        \A i, j \in 1..Len(results) :
            (i # j /\ HasSocialKey(results[i]) /\ HasSocialKey(results[j]))
               => SocialKey(results[i]) # SocialKey(results[j])

(***************************************************************************)
(* C21: the network operations in flight                                   *)
(***************************************************************************)

\* The network operations of the run that have started and not completed:
\* the collector or page fetch every running task awaits, the collector the
\* enrichment loop awaits, and the checker probeSocialMedia awaits.
InFlight ==
    Cardinality({i \in 1..Len(lim.step) : lim.step[i] \in NetworkSteps})
    + (IF enr.step \in {"whois", "dns", "crt"} THEN 1 ELSE 0)
    + (IF psm.phase = "probe" THEN 1 ELSE 0)

\* C21: at every moment of a findNameUsage run, under every interleaving of
\* task starts and completions, the number of network operations in flight
\* for the name (candidate-domain probes, URL fetches, enrichment lookups,
\* social probes) is at most the concurrency budget.
C21_InFlightWithinBudget == InFlight <= lim.concurrency

\* The budget is used up while a task still waits in the queue.
C21_Witness == InFlight = lim.concurrency /\ lim.queue # <<>>

(***************************************************************************)
(* C30: the verdict and the order in which the tasks complete              *)
(***************************************************************************)

\* The record task i of the phase returns.
TaskRecord(i) ==
    IF lim.kind = "probe"
    THEN ProbeRecord(TaskCandidates[i], opts, serviceReplies[TaskCandidates[i]])
    ELSE processUrlForName(name, urls[i])

\* What findNameUsage returns for the name, the options, the URLs found and
\* the external responses when every step is taken in index order.
SequentialVerdict(n, o, us, replies, answers) ==
    LET probed   == IF o.probe \in {"always", "auto"}
                    THEN [i \in 1..Len(TaskCandidates) |->
                             ProbeRecord(TaskCandidates[i], o, replies[TaskCandidates[i]])]
                    ELSE <<>>
        found    == [i \in 1..Len(us) |-> processUrlForName(n, us[i])]
        deduped  == Dedupe(FilterSeq(probed \o found, o))
        enriched == [i \in 1..Len(deduped) |->
                        EnrichRecord(deduped[i], probed, o,
                                     IF deduped[i].domain \in DOMAIN replies
                                     THEN replies[deduped[i].domain] ELSE RegisteredReply)]
        merged   == MergeSocial(probeSocialMedia(PROBE_PLATFORMS, answers),
                                [dedup |-> enriched, socialResults |-> <<>>],
                                toDomainBase(n), o)
    IN  EvidenceFilter(merged.dedup \o merged.socialResults, o)

\* C30: the verdict of findNameUsage is the same for every order in which
\* the probe tasks and the URL tasks complete: the array of a phase holds
\* the record of task i at index i, and the list returned is, in contents
\* and order, the one the name, the options and the external responses give
\* when the steps are taken in index order.
C30_VerdictIndependentOfCompletionOrder ==
    /\ \A i \in DOMAIN lim.out : lim.out[i] = TaskRecord(i)
    /\ pc = "returned" =>
          results = SequentialVerdict(name, opts, urls, serviceReplies, platformAnswers)

\* Both tasks of a phase are done, the second before the first, and the
\* array holds their records in index order.
C30_Witness ==
    /\ lim.finished = <<2, 1>>
    /\ lim.out = <<TaskRecord(1), TaskRecord(2)>>
    /\ TaskRecord(1) # TaskRecord(2)

(***************************************************************************)
(* C25: the run ends                                                       *)
(***************************************************************************)

\* C25: provided every external call eventually completes, findNameUsage
\* eventually returns its verdict: no phase (probe, search, URL processing,
\* enrichment, social probing) waits forever, and every task queued on the
\* limiter eventually runs.
C25_RunReturns == <>(pc = "returned")

\* The run has returned after a probe phase with more tasks than the
\* limiter runs at a time, a search that found URLs and a record that was
\* enriched.
C25_Witness ==
    /\ pc = "returned"
    /\ Len(probeResults) > lim.concurrency
    /\ Len(urls) > 0
    /\ \E k \in 1..Len(enr.calls) : enr.calls[k].dns = 1

(***************************************************************************)
(* C23: the collectors in the enrichment loop                              *)
(***************************************************************************)

\* One invocation of every enabled collector.
OncePerEnabledCollector(o) ==
    [whois |-> IF o.doWhois THEN 1 ELSE 0, dns |-> 1, crt |-> IF o.doCrt THEN 1 ELSE 0]

\* C23: after the deduplication, when the enrichment loop is over, every
\* enabled collector (WHOIS, DNS, crt.sh) has been invoked exactly once
\* for every surviving search-origin record, and no collector has been
\* invoked for a surviving probe-origin record, which still is the record
\* the probe built; while the loop runs no collector is invoked twice for
\* a record.
C23_CollectorsOncePerSearchRecord ==
    /\ \A k \in 1..Len(enr.calls) :
          enr.calls[k].whois <= 1 /\ enr.calls[k].dns <= 1 /\ enr.calls[k].crt <= 1
    /\ pc \in {"social", "merge"} =>
          \A k \in 1..Len(dedup) :
             /\ dedup[k].origin = "search" => enr.calls[k] = OncePerEnabledCollector(opts)
             /\ dedup[k].origin = "probe" =>
                   /\ enr.calls[k] = NoCalls
                   /\ \E j \in 1..Len(probeResults) : probeResults[j] = dedup[k]

\* The loop is over a list with a probe-origin and a search-origin record.
C23_Witness ==
    /\ pc = "social"
    /\ \E k \in 1..Len(dedup) : dedup[k].origin = "search" /\ enr.calls[k].dns = 1
    /\ \E k \in 1..Len(dedup) : dedup[k].origin = "probe"

(***************************************************************************)
(* C22: probeSocialMedia probes one platform at a time                     *)
(***************************************************************************)

\* The platforms of the list that have a checker, in the order of the list.
RECURSIVE WithChecker(_)
WithChecker(platforms) ==
    IF platforms = <<>> THEN <<>>
    ELSE (IF HasChecker(Head(platforms)) THEN <<Head(platforms)>> ELSE <<>>)
         \o WithChecker(Tail(platforms))

\* The platforms whose checker was started, in the order of the starts.
RECURSIVE Started(_)
Started(log) ==
    IF log = <<>> THEN <<>>
    ELSE (IF Head(log).ev = "start" THEN <<Head(log).platform>> ELSE <<>>)
         \o Started(Tail(log))

\* The part of the list the loop has reached.
Reached ==
    SubSeq(psm.platforms, 1,
           IF psm.phase \in {"probe", "sleep"} THEN psm.i
           ELSE IF psm.phase = "idle" THEN 0 ELSE psm.i - 1)

\* C22: probeSocialMedia runs the platform probes strictly one at a time in
\* the order of the platforms list: the checkers started are those of the
\* platforms reached, in list order; a checker starts only after the one
\* before it has returned and the delay after it has elapsed; and the
\* result returned has exactly one entry for every requested platform
\* that has a checker.
C22_ProbesOneAtATimeInOrder ==
    /\ Started(psm.log) = WithChecker(Reached)
    /\ \A j \in 1..Len(psm.log) :
          /\ psm.log[j].ev = "start" =>
                \/ j = 1
                \/ /\ j > 2
                   /\ psm.log[j - 1].ev = "slept"
                   /\ psm.log[j - 2].ev = "return"
                   /\ psm.log[j - 1].platform = psm.log[j - 2].platform
          /\ psm.log[j].ev = "return" =>
                j > 1 /\ psm.log[j - 1] = Event("start", psm.log[j].platform)
    /\ psm.phase = "returned" =>
          /\ {psm.results[j].platform : j \in 1..Len(psm.results)}
                = {psm.platforms[j] : j \in {h \in 1..Len(psm.platforms) :
                                               HasChecker(psm.platforms[h])}}
          /\ \A j, h \in 1..Len(psm.results) :
                psm.results[j].platform = psm.results[h].platform => j = h

\* The call has returned for a list with two platforms that have a checker
\* and one without: two entries, the second probe started after the delay.
C22_Witness ==
    /\ psm.phase = "returned"
    /\ psm.platforms = <<"instagram", "linktree", "twitter">>
    /\ Len(psm.results) = 2
    /\ psm.log = <<Event("start", "instagram"), Event("return", "instagram"),
                   Event("slept", "instagram"), Event("start", "twitter"),
                   Event("return", "twitter")>>

====
